---- MODULE Spec2Model ----
(***************************************************************************)
(* A model of the Monkey bytecode pipeline of andy9775/monkey: the         *)
(* instruction encoding (code/code.go), the symbol table and the compiler  *)
(* (compiler/), and the stack virtual machine (vm/vm.go, vm/frame.go).     *)
(*                                                                         *)
(* Go slices are 0-based; TLA+ sequences are 1-based.  A Go slice s is     *)
(* modelled by a sequence, and s[i] is At(s, i).  Fixed-size Go arrays     *)
(* that start out filled with nil (the value stack, the frame stack, the   *)
(* globals slab) are modelled by functions whose domain is the set of      *)
(* slots written so far; every other slot still holds nil.                *)
(***************************************************************************)
EXTENDS Integers, Sequences, FiniteSets, TLC

(***************************************************************************)
(* code/code.go : opcodes, definitions, Make, ReadOperands                 *)
(***************************************************************************)
OpConstant == 0
OpAdd == 1
OpSub == 2
OpMul == 3
OpDiv == 4
OpTrue == 5
OpFalse == 6
OpEqual == 7
OpNotEqual == 8
OpGreaterThan == 9
OpMinus == 10
OpBang == 11
OpJumpNotTruthy == 12
OpJump == 13
OpNull == 14
OpGetGlobal == 15
OpSetGlobal == 16
OpGetLocal == 17
OpSetLocal == 18
OpGetBuiltin == 19
OpArray == 20
OpHash == 21
OpIndex == 22
OpCall == 23
OpReturnValue == 24
OpReturn == 25
OpPop == 26
\* The closure opcodes that vm/vm.go dispatches on and code/code_test.go encodes
\* (operand widths [2,1], [1] and [] as in the opcode table).
OpClosure == 27
OpGetFree == 28
OpCurrentClosure == 29

\* definitions: opcode -> operand widths (the Name field is only used for printing)
definitions ==
  [op \in 0..29 |->
     CASE op \in {OpConstant, OpJumpNotTruthy, OpJump, OpGetGlobal, OpSetGlobal,
                  OpArray, OpHash} -> <<2>>
       [] op \in {OpGetLocal, OpSetLocal, OpCall, OpGetBuiltin, OpGetFree} -> <<1>>
       [] op = OpClosure -> <<2, 1>>
       [] OTHER -> <<>>]

At(s, i) == s[i + 1]

RECURSIVE SumSeq(_)
SumSeq(s) == IF s = <<>> THEN 0 ELSE Head(s) + SumSeq(Tail(s))

\* binary.BigEndian.PutUint16(b, uint16(o)) and instruction[offset] = byte(o)
EncodeOperand(o, width) ==
  IF width = 2 THEN <<(o % 65536) \div 256, o % 256>>
  ELSE IF width = 1 THEN <<o % 256>>
  ELSE <<>>

RECURSIVE EncodeOperands(_, _)
EncodeOperands(widths, operands) ==
  IF widths = <<>> THEN <<>>
  ELSE IF operands = <<>>
       THEN [i \in 1..SumSeq(widths) |-> 0]
       ELSE EncodeOperand(Head(operands), Head(widths))
            \o EncodeOperands(Tail(widths), Tail(operands))

\* Make(op, operands...): opcode byte, then every operand big-endian in its width
Make(op, operands) ==
  IF op \notin DOMAIN definitions THEN <<>>
  ELSE <<op>> \o EncodeOperands(definitions[op], operands)

\* ReadUint16(ins[off:]) and ReadUint8(ins[off:])
ReadUint16(ins, off) == At(ins, off) * 256 + At(ins, off + 1)
ReadUint8(ins, off) == At(ins, off)

RECURSIVE Concat(_)
Concat(ss) == IF ss = <<>> THEN <<>> ELSE Head(ss) \o Concat(Tail(ss))

\* definitions[op].Name
OpcodeName(op) ==
  CASE op = OpConstant -> "OpConstant" [] op = OpAdd -> "OpAdd"
    [] op = OpSub -> "OpSub" [] op = OpMul -> "OpMul" [] op = OpDiv -> "OpDiv"
    [] op = OpTrue -> "OpTrue" [] op = OpFalse -> "OpFalse"
    [] op = OpEqual -> "OpEqual" [] op = OpNotEqual -> "OpNotEqual"
    [] op = OpGreaterThan -> "OpGreaterThan" [] op = OpMinus -> "OpMinus"
    [] op = OpBang -> "OpBang" [] op = OpJumpNotTruthy -> "OpJumpNotTruthy"
    [] op = OpJump -> "OpJump" [] op = OpGetGlobal -> "OpGetGlobal"
    [] op = OpSetGlobal -> "OpSetGlobal" [] op = OpGetLocal -> "OpGetLocal"
    [] op = OpSetLocal -> "OpSetLocal" [] op = OpArray -> "OpArray"
    [] op = OpHash -> "OpHash" [] op = OpIndex -> "OpIndex"
    [] op = OpCall -> "OpCall" [] op = OpGetBuiltin -> "OpGetBuiltin"
    [] op = OpReturnValue -> "OpReturnValue" [] op = OpReturn -> "OpReturn"
    [] op = OpNull -> "OpNull" [] op = OpPop -> "OpPop"
    [] op = OpClosure -> "OpClosure" [] op = OpGetFree -> "OpGetFree"
    [] op = OpCurrentClosure -> "OpCurrentClosure"

\* a ReadOperands that steps one byte per operand, whatever its width
ReadOperands_StepsByOne(widths, ins) ==
  [operands |-> [i \in 1..Len(widths) |->
                   IF widths[i] = 2 THEN ReadUint16(ins, i - 1)
                   ELSE IF widths[i] = 1 THEN ReadUint8(ins, i - 1)
                   ELSE 0],
   offset |-> Len(widths)]

\* ReadOperands(def, ins): the operands and the number of bytes read; widths
\* is def.OperandWidths
ReadOperands(widths, ins) ==
  [operands |-> [i \in 1..Len(widths) |->
                   IF widths[i] = 2 THEN ReadUint16(ins, SumSeq(SubSeq(widths, 1, i - 1)))
                   ELSE IF widths[i] = 1 THEN ReadUint8(ins, SumSeq(SubSeq(widths, 1, i - 1)))
                   ELSE 0],
   offset |-> SumSeq(widths)]

\* fmt's %d of an int that is not negative, and %04d of it
Sprintd(n) == ToString(n)
Sprint04d(n) ==
  IF n < 10 THEN "000" \o ToString(n)
  ELSE IF n < 100 THEN "00" \o ToString(n)
  ELSE IF n < 1000 THEN "0" \o ToString(n)
  ELSE ToString(n)

\* ins.fmtInstruction(def, operands)
fmtInstruction(op, operands) ==
  LET operandCount == Len(definitions[op])
  IN IF Len(operands) # operandCount
     THEN "ERROR: operand len " \o Sprintd(Len(operands))
          \o " does not match defined " \o Sprintd(operandCount) \o "\n"
     ELSE CASE operandCount = 0 -> OpcodeName(op)
            [] operandCount = 1 -> OpcodeName(op) \o " " \o Sprintd(operands[1])
            [] OTHER -> "ERROR: unhandled operandCount for " \o OpcodeName(op)
                        \o "\n"

\* the loop of ins.String() from offset i on: what each turn writes to the
\* buffer, in order.  A byte that is no opcode is reported and the loop
\* goes round again without moving on: the call never returns (hangs).
RECURSIVE StringFrom(_, _)
StringFrom(ins, i) ==
  IF ~(i < Len(ins)) THEN [out |-> <<>>, hangs |-> FALSE]
  ELSE IF At(ins, i) \notin DOMAIN definitions
  THEN [out |-> <<"ERROR: opcode " \o Sprintd(At(ins, i)) \o " undefined\n">>,
        hangs |-> TRUE]
  ELSE LET def == definitions[At(ins, i)]
           r == ReadOperands(def, SubSeq(ins, i + 2, Len(ins)))
           rest == StringFrom(ins, i + 1 + r.offset)
       IN [out |-> <<Sprint04d(i) \o " " \o fmtInstruction(At(ins, i), r.operands)
                     \o "\n">> \o rest.out,
           hangs |-> rest.hangs]

\* ins.String()
InstructionsString(ins) == StringFrom(ins, 0)

(***************************************************************************)
(* object/object.go : runtime values.  Heap objects carry the identity     *)
(* (id) of their allocation, since the VM compares non-integers by         *)
(* pointer: <<"c", i>> for the object made for constant i, <<"h", n>> for  *)
(* the n-th object allocated while running.                                *)
(***************************************************************************)
INTEGER_OBJ == "INTEGER"
BOOLEAN_OBJ == "BOOLEAN"
NULL_OBJ == "NULL"
COMPILED_FUNCTION_OBJ == "COMPILED_FUNCTION_OBJ"
STRING_OBJ == "STRING"
ARRAY_OBJ == "ARRAY"
BUILTIN_OBJ == "BUILTIN"
CLOSURE_OBJ == "CLOSURE"
HASH_OBJ == "HASH"
ERROR_OBJ == "ERROR"

\* a Go nil interface value (an empty slot)
Nil == [t |-> "nil"]
\* vm.True, vm.False, vm.Null: the interned singletons
True == [t |-> BOOLEAN_OBJ, b |-> TRUE]
False == [t |-> BOOLEAN_OBJ, b |-> FALSE]
Null == [t |-> NULL_OBJ]

Integer(n) == [t |-> INTEGER_OBJ, n |-> n]
String(s, id) == [t |-> STRING_OBJ, s |-> s, id |-> id]
Array(elems, id) == [t |-> ARRAY_OBJ, Elements |-> elems, id |-> id]
Hash(pairs, id) == [t |-> HASH_OBJ, Pairs |-> pairs, id |-> id]
CompiledFunction(ins, numLocals, numParameters, id) ==
  [t |-> COMPILED_FUNCTION_OBJ, Instructions |-> ins,
   NumLocals |-> numLocals, NumParameters |-> numParameters, id |-> id]
\* Closure.Fn is a pointer to a function of the constants pool: its index,
\* or MainFn for the synthetic function vm.New wraps the program in
Closure(fn, free) == [Fn |-> fn, Free |-> free]
\* a *object.Closure as an object.Object: the identity of the Closure it
\* points to
ClosurePtr(id) == [t |-> CLOSURE_OBJ, id |-> id]
Builtin(name) == [t |-> BUILTIN_OBJ, name |-> name]
ErrorObj(msg, id) == [t |-> ERROR_OBJ, Message |-> msg, id |-> id]

MainFn == -1
MainClosure == <<"main", 1>>
ConstId(i) == <<"c", i>>
HeapId(n) == <<"h", n>>

\* Object.Type(); calling it on nil panics, which the callers check with IsNil
Type(o) == o.t
IsNil(o) == o.t = "nil"

\* the Hashable interface: Integer, Boolean and String implement HashKey()
Hashable(o) == o.t \in {INTEGER_OBJ, BOOLEAN_OBJ, STRING_OBJ}
\* HashKey(): for strings the 64-bit FNV-1a sum is represented by the bytes it
\* is computed from (equal bytes give equal keys)
HashKey(o) ==
  CASE o.t = INTEGER_OBJ -> [Type |-> INTEGER_OBJ, Value |-> ToString(o.n)]
    [] o.t = BOOLEAN_OBJ -> [Type |-> BOOLEAN_OBJ, Value |-> IF o.b THEN "1" ELSE "0"]
    [] o.t = STRING_OBJ -> [Type |-> STRING_OBJ, Value |-> o.s]

(***************************************************************************)
(* compiler/symbol_table.go : the symbol tables.  Tables point to their    *)
(* outer table, so they live in a heap: tables[t] is the table with        *)
(* pointer t, and NilTable is the nil pointer.                             *)
(***************************************************************************)
GlobalScope == "GLOBAL"
LocalScope == "LOCAL"
\* the scope symbol_table_test.go expects of a captured name
FreeScope == "FREE"

\* the scopes symbol_table_test.go expects of a function's own name and of a
\* builtin
FunctionScope == "FUNCTION"
BuiltinScope == "BUILTIN"

NilTable == 0
\* the zero Symbol that a failed map lookup yields
NoSymbol == [Name |-> "", Scope |-> "", Index |-> 0]

\* NewSymbolTable / NewEnclosedSymbolTable(outer): the heap with the new table,
\* whose pointer is Len(tables) + 1
NewEnclosedSymbolTable(tables, outer) ==
  Append(tables, [Outer |-> outer, store |-> <<>>, numDefinitions |-> 0])

NewSymbolTable(tables) == NewEnclosedSymbolTable(tables, NilTable)

\* a Define that numbers the symbol by the size of the store, not by the
\* count of definitions
Define_IndexByStoreSize(tables, s, name) ==
  LET symbol == [Name |-> name,
                 Scope |-> IF tables[s].Outer = NilTable THEN GlobalScope ELSE LocalScope,
                 Index |-> Cardinality(DOMAIN tables[s].store)]
  IN [symbol |-> symbol,
      tables |-> [tables EXCEPT ![s].store = (name :> symbol) @@ @,
                                ![s].numDefinitions = @ + 1]]

\* a Define that leaves the entry a name already has in the store
Define_KeepsExisting(tables, s, name) ==
  LET symbol == [Name |-> name,
                 Scope |-> IF tables[s].Outer = NilTable THEN GlobalScope ELSE LocalScope,
                 Index |-> tables[s].numDefinitions]
  IN [symbol |-> symbol,
      tables |-> [tables EXCEPT ![s].store = @ @@ (name :> symbol),
                                ![s].numDefinitions = @ + 1]]

\* s.Define(name): the symbol, and the heap after it
Define(tables, s, name) ==
  LET symbol == [Name |-> name,
                 Scope |-> IF tables[s].Outer = NilTable THEN GlobalScope ELSE LocalScope,
                 Index |-> tables[s].numDefinitions]
  IN [symbol |-> symbol,
      tables |-> [tables EXCEPT ![s].store = (name :> symbol) @@ @,
                                ![s].numDefinitions = @ + 1]]

\* s.DefineBuiltin(index, name): the symbol, and the heap after it; the count
\* of definitions stays
DefineBuiltin(tables, s, index, name) ==
  LET symbol == [Name |-> name, Scope |-> BuiltinScope, Index |-> index]
  IN [symbol |-> symbol,
      tables |-> [tables EXCEPT ![s].store = (name :> symbol) @@ @]]

\* s.DefineFunctionName(name): the symbol, and the heap after it
DefineFunctionName(tables, s, name) ==
  LET symbol == [Name |-> name, Scope |-> FunctionScope, Index |-> 0]
  IN [symbol |-> symbol,
      tables |-> [tables EXCEPT ![s].store = (name :> symbol) @@ @]]

\* a Resolve that records the name it did not find in the table it was asked
\* of, as a lookup that stores its default would
RECURSIVE Resolve_StoresMissing(_, _, _)
Resolve_StoresMissing(tables, s, name) ==
  LET ok == name \in DOMAIN tables[s].store
  IN IF ~ok /\ tables[s].Outer # NilTable
     THEN Resolve_StoresMissing(tables, tables[s].Outer, name)
     ELSE [obj |-> IF ok THEN tables[s].store[name] ELSE NoSymbol, ok |-> ok,
           tables |-> IF ok THEN tables
                      ELSE [tables EXCEPT ![s].store = (name :> NoSymbol) @@ @]]

\* a Resolve that looks in the table it is asked of only
Resolve_NoOuter(tables, s, name) ==
  LET ok == name \in DOMAIN tables[s].store
  IN [obj |-> IF ok THEN tables[s].store[name] ELSE NoSymbol, ok |-> ok,
      tables |-> tables]

\* s.Resolve(name): (obj, ok), and the heap after it, which no statement of
\* Resolve writes to
RECURSIVE Resolve(_, _, _)
Resolve(tables, s, name) ==
  LET ok == name \in DOMAIN tables[s].store
  IN IF ~ok /\ tables[s].Outer # NilTable
     THEN Resolve(tables, tables[s].Outer, name)
     ELSE [obj |-> IF ok THEN tables[s].store[name] ELSE NoSymbol, ok |-> ok,
           tables |-> tables]

(***************************************************************************)
(* lexer : a Go string is its bytes, here a sequence of byte values; a     *)
(* Token is its Type (the string the token package gives the type) and     *)
(* its Literal (bytes).  Every method takes the Lexer l and gives the      *)
(* Lexer after it.                                                         *)
(***************************************************************************)
\* the element of a set of one element: Only({e(x) : x \in {v}}) is e(v),
\* with v computed once however often e uses it
Only(S) == CHOOSE x \in S : TRUE

\* a Go character literal: the byte of a character
OrdTable ==
  " " :> 32 @@ "!" :> 33 @@ "\"" :> 34 @@ "(" :> 40
  @@ ")" :> 41 @@ "*" :> 42 @@ "+" :> 43 @@ "," :> 44
  @@ "-" :> 45 @@ "/" :> 47 @@ "0" :> 48 @@ "1" :> 49
  @@ "9" :> 57 @@ ";" :> 59 @@ "<" :> 60 @@ "=" :> 61
  @@ ">" :> 62 @@ "@" :> 64 @@ "A" :> 65 @@ "Z" :> 90
  @@ "[" :> 91 @@ "]" :> 93 @@ "_" :> 95 @@ "a" :> 97
  @@ "b" :> 98 @@ "c" :> 99 @@ "d" :> 100 @@ "z" :> 122
  @@ "{" :> 123 @@ "}" :> 125 @@ "\t" :> 9 @@ "\n" :> 10
  @@ "\r" :> 13

Ord(c) == OrdTable[c]

\* input[from:to]
Slice(input, from, to) == SubSeq(input, from + 1, to)

isLetter(ch) ==
  \/ Ord("a") <= ch /\ ch <= Ord("z")
  \/ Ord("A") <= ch /\ ch <= Ord("Z")
  \/ ch = Ord("_")

isDigit(ch) == Ord("0") <= ch /\ ch <= Ord("9")

\* var tok token.Token
NoToken == [Type |-> "", Literal |-> <<>>]

newToken(TokenType, ch) == [Type |-> TokenType, Literal |-> <<ch>>]

\* token.LookupIdent(ident), the keywords being fn, let, true, false, if,
\* else and return
LookupIdent(ident) ==
  CASE ident = <<102, 110>> -> "FUNCTION"
    [] ident = <<108, 101, 116>> -> "LET"
    [] ident = <<116, 114, 117, 101>> -> "TRUE"
    [] ident = <<102, 97, 108, 115, 101>> -> "FALSE"
    [] ident = <<105, 102>> -> "IF"
    [] ident = <<101, 108, 115, 101>> -> "ELSE"
    [] ident = <<114, 101, 116, 117, 114, 110>> -> "RETURN"
    [] OTHER -> "IDENT"

readChar(l) ==
  [l EXCEPT !.ch = IF l.readPosition >= Len(l.input) THEN 0
                   ELSE At(l.input, l.readPosition),
            !.position = l.readPosition,
            !.readPosition = l.readPosition + 1]

peekChar(l) ==
  IF l.readPosition >= Len(l.input) THEN 0 ELSE At(l.input, l.readPosition)

\* lexer.New(input)
NewLexer(input) ==
  readChar([input |-> input, position |-> 0, readPosition |-> 0, ch |-> 0])

RECURSIVE skipWhitespace(_)
skipWhitespace(lexer0) ==
  Only({IF l.ch \in {Ord(" "), Ord("\t"), Ord("\n"), Ord("\r")}
         THEN skipWhitespace(readChar(l))
         ELSE l : l \in {lexer0}})

\* the loop of readIdentifier: the Lexer once l.ch is no letter
RECURSIVE SkipLetters(_)
SkipLetters(lexer0) ==
  Only({IF isLetter(l.ch) THEN SkipLetters(readChar(l)) ELSE l : l \in {lexer0}})

readIdentifier(l) ==
  Only({[literal |-> Slice(l.input, l.position, end.position), l |-> end] :
           end \in {SkipLetters(l)}})

\* the loop of readNumber
RECURSIVE SkipDigits(_)
SkipDigits(lexer0) ==
  Only({IF isDigit(l.ch) THEN SkipDigits(readChar(l)) ELSE l : l \in {lexer0}})

readNumber(l) ==
  Only({[literal |-> Slice(l.input, l.position, end.position), l |-> end] :
           end \in {SkipDigits(l)}})

\* the loop of readString: read on, at least once, up to a quote or a 0
RECURSIVE SkipToQuote(_)
SkipToQuote(l) ==
  Only({IF l1.ch = Ord("\"") \/ l1.ch = 0 THEN l1 ELSE SkipToQuote(l1) :
           l1 \in {readChar(l)}})

readString(l) ==
  Only({[literal |-> Slice(l.input, l.position + 1, end.position), l |-> end] :
           end \in {SkipToQuote(l)}})

\* the two-byte token of type t that starts at l.ch, if the next byte is =,
\* the one-byte token of type single if not
TwoByteToken(l, t, single) ==
  IF peekChar(l) = Ord("=")
  THEN [tok |-> [Type |-> t, Literal |-> <<l.ch, readChar(l).ch>>],
        l |-> readChar(readChar(l))]
  ELSE [tok |-> newToken(single, l.ch), l |-> readChar(l)]

\* l.NextToken(): the token, and the Lexer after the call
NextToken(l0) ==
  Only({
  LET one(t) == [tok |-> newToken(t, l.ch), l |-> readChar(l)]
  IN CASE l.ch = Ord("=") -> TwoByteToken(l, "==", "=")
       [] l.ch = Ord(";") -> one(";")
       [] l.ch = Ord("(") -> one("(")
       [] l.ch = Ord(")") -> one(")")
       [] l.ch = Ord(",") -> one(",")
       [] l.ch = Ord("+") -> one("+")
       [] l.ch = Ord("-") -> one("-")
       [] l.ch = Ord("!") -> TwoByteToken(l, "!=", "!")
       [] l.ch = Ord("/") -> one("/")
       [] l.ch = Ord("*") -> one("*")
       [] l.ch = Ord("<") -> one("<")
       [] l.ch = Ord(">") -> one(">")
       [] l.ch = Ord("{") -> one("{")
       [] l.ch = Ord("}") -> one("}")
       [] l.ch = Ord("\"") ->
            LET str == readString(l)
            IN [tok |-> [Type |-> "STRING", Literal |-> str.literal],
                l |-> readChar(str.l)]
       [] l.ch = Ord("[") -> one("[")
       [] l.ch = Ord("]") -> one("]")
       [] l.ch = 0 -> [tok |-> [Type |-> "EOF", Literal |-> <<>>], l |-> readChar(l)]
       [] OTHER ->
            IF isLetter(l.ch)
            THEN LET ident == readIdentifier(l)
                 IN [tok |-> [Type |-> LookupIdent(ident.literal),
                              Literal |-> ident.literal],
                     l |-> ident.l]
            ELSE IF isDigit(l.ch)
            THEN LET number == readNumber(l)
                 IN [tok |-> [Type |-> "INT", Literal |-> number.literal],
                     l |-> number.l]
            ELSE one("ILLEGAL") :
  l \in {skipWhitespace(l0)}})

(***************************************************************************)
(* ast : the nodes Compile switches on, as records with the fields it      *)
(* reads.  NilNode is a nil Expression.  The Value of an IntegerLiteral    *)
(* is an int64 and that of a Boolean a bool: they are the fields IntValue  *)
(* and BoolValue, Value being a string in every node that has it.          *)
(***************************************************************************)
NilNode == [type |-> "nil"]
Program(stmts) == [type |-> "Program", Statements |-> stmts]
ExpressionStatement(e) == [type |-> "ExpressionStatement", Expression |-> e]
LetStatement(name, value) == [type |-> "LetStatement", Name |-> name, Value |-> value]
ReturnStatement(value) == [type |-> "ReturnStatement", ReturnValue |-> value]
BlockStatement(stmts) == [type |-> "BlockStatement", Statements |-> stmts]
IntegerLiteral(n) == [type |-> "IntegerLiteral", IntValue |-> n]
StringLiteral(str) == [type |-> "StringLiteral", Value |-> str]
Boolean(b) == [type |-> "Boolean", BoolValue |-> b]
Identifier(name) == [type |-> "Identifier", Value |-> name]
PrefixExpression(op, right) ==
  [type |-> "PrefixExpression", Operator |-> op, Right |-> right]
InfixExpression(left, op, right) ==
  [type |-> "InfixExpression", Left |-> left, Operator |-> op, Right |-> right]
IfExpression(cond, cons, alt) ==
  [type |-> "IfExpression", Condition |-> cond, Consequence |-> cons,
   Alternative |-> alt]
FunctionLiteral(params, body) ==
  [type |-> "FunctionLiteral", Parameters |-> params, Body |-> body]
CallExpression(fn, args) ==
  [type |-> "CallExpression", Function |-> fn, Arguments |-> args]
ArrayLiteral(elems) == [type |-> "ArrayLiteral", Elements |-> elems]
\* Pairs is a Go map; here the sequence of its <<key, value>> entries
HashLiteral(pairs) == [type |-> "HashLiteral", Pairs |-> pairs]
IndexExpression(left, index) ==
  [type |-> "IndexExpression", Left |-> left, Index |-> index]

\* Expression.String() of a hash key, as its bytes (integer and boolean literals,
\* the keys of the hash literals considered)
RECURSIVE Digits(_)
Digits(n) == IF n < 10 THEN <<48 + n>> ELSE Append(Digits(n \div 10), 48 + (n % 10))

KeyString(node) ==
  CASE node.type = "IntegerLiteral" -> Digits(node.IntValue)
    [] node.type = "Boolean" ->
         IF node.BoolValue THEN <<116, 114, 117, 101>> ELSE <<102, 97, 108, 115, 101>>
    [] OTHER -> <<>>

\* a < b on Go strings
RECURSIVE StringLess(_, _)
StringLess(a, b) ==
  IF b = <<>> THEN FALSE
  ELSE IF a = <<>> THEN TRUE
  ELSE IF Head(a) # Head(b) THEN Head(a) < Head(b)
  ELSE StringLess(Tail(a), Tail(b))

\* sort.Slice(keys, keys[i].String() < keys[j].String()) on the map's entries
RECURSIVE InsertPair(_, _)
InsertPair(sorted, pair) ==
  IF sorted = <<>> THEN <<pair>>
  ELSE IF StringLess(KeyString(pair[1]), KeyString(Head(sorted)[1]))
       THEN <<pair>> \o sorted
       ELSE <<Head(sorted)>> \o InsertPair(Tail(sorted), pair)

RECURSIVE SortPairs(_)
SortPairs(pairs) ==
  IF pairs = <<>> THEN <<>>
  ELSE InsertPair(SortPairs(Tail(pairs)), Head(pairs))

(***************************************************************************)
(* parser : the Pratt parser.  A Parser p holds its Lexer p.l, the two     *)
(* tokens and the errors; every method takes p and gives the Parser after  *)
(* it beside its result.  The maps of parse functions are the operators    *)
(* HasPrefixFn and HasInfixFn.  The Value of an Identifier and the         *)
(* Operator of an expression are the bytes of the token's Literal.         *)
(***************************************************************************)
LOWEST == 1
EQUALS == 2
LESSGREATER == 3
SUM == 4
PRODUCT == 5
PREFIX == 6
CALL == 7

\* precedences[t], ok
precedences(t) ==
  CASE t \in {"==", "!="} -> EQUALS
    [] t \in {"<", ">"} -> LESSGREATER
    [] t \in {"+", "-"} -> SUM
    [] t \in {"/", "*"} -> PRODUCT
    [] OTHER -> 0

\* the token types New registers a prefix and an infix function for
HasPrefixFn(t) == t \in {"IDENT", "INT", "!", "-", "TRUE", "FALSE", "("}
HasInfixFn(t) == t \in {"+", "-", "/", "*", "==", "!=", "<", ">"}

nextToken(p) ==
  Only({[p EXCEPT !.currToken = p.peekToken, !.peekToken = next.tok, !.l = next.l] :
          next \in {NextToken(p.l)}})

\* parser.New(l)
NewParser(l) ==
  nextToken(nextToken([l |-> l, errors |-> <<>>, currToken |-> NoToken,
                       peekToken |-> NoToken]))

currTokenIs(p, t) == p.currToken.Type = t
peekTokenIs(p, t) == p.peekToken.Type = t

\* an error message: the format and what fills it
Errorf(p, format, args) ==
  [p EXCEPT !.errors = Append(@, [format |-> format, args |-> args])]

peekError(p, t) ==
  Errorf(p, "expected next token to be %s, got %s instead", <<t, p.peekToken.Type>>)

noPrefixParseFnError(p, t) ==
  Errorf(p, "no prefix parse function for %s found", <<t>>)

\* p.expectPeek(t): the result, and the Parser after it
expectPeek(p, t) ==
  IF peekTokenIs(p, t) THEN [ok |-> TRUE, p |-> nextToken(p)]
  ELSE [ok |-> FALSE, p |-> peekError(p, t)]

peekPrecedence(p) ==
  IF precedences(p.peekToken.Type) # 0 THEN precedences(p.peekToken.Type) ELSE LOWEST

curPrecedence(p) ==
  IF precedences(p.currToken.Type) # 0 THEN precedences(p.currToken.Type) ELSE LOWEST

\* strconv.ParseInt(literal, 0, 64) of a literal of digits: octal after a
\* leading 0, decimal if not; err if a digit is out of the base or the value
\* out of the range of an int64 (which takes ten digits at least)
RECURSIVE DigitsValue(_, _)
DigitsValue(digits, base) ==
  IF digits = <<>> THEN 0
  ELSE DigitsValue(SubSeq(digits, 1, Len(digits) - 1), base) * base
       + (digits[Len(digits)] - Ord("0"))

ParseInt(literal) ==
  LET octal == Len(literal) > 1 /\ literal[1] = Ord("0")
      base == IF octal THEN 8 ELSE 10
      digits == IF octal THEN Tail(literal) ELSE literal
      inBase == \A i \in 1..Len(digits) :
                  Ord("0") <= digits[i] /\ digits[i] < Ord("0") + base
  IN IF literal = <<>> \/ ~inBase THEN [value |-> 0, ok |-> FALSE]
     ELSE IF Len(digits) >= 10 /\ DigitsValue(digits, base) >= 2^63
     THEN [value |-> 0, ok |-> FALSE]
     ELSE [value |-> DigitsValue(digits, base), ok |-> TRUE]

parseIdentifier(p) == [exp |-> Identifier(p.currToken.Literal), p |-> p]

parseIntegerLiteral(p) ==
  IF ~ParseInt(p.currToken.Literal).ok
  THEN [exp |-> NilNode,
        p |-> Errorf(p, "could not parse %q as integer", <<p.currToken.Literal>>)]
  ELSE [exp |-> IntegerLiteral(ParseInt(p.currToken.Literal).value), p |-> p]

parseBoolean(p) == [exp |-> Boolean(currTokenIs(p, "TRUE")), p |-> p]

RECURSIVE parseExpression(_, _)
RECURSIVE InfixLoop(_, _, _)
RECURSIVE parsePrefixExpression(_)
RECURSIVE parseGroupedExpression(_)
RECURSIVE parseInfixExpression_Greedy(_, _)
RECURSIVE parseInfixExpression(_, _)

parsePrefixExpression(p) ==
  Only({[exp |-> PrefixExpression(p.currToken.Literal, right.exp), p |-> right.p] :
          right \in {parseExpression(nextToken(p), PREFIX)}})

\* a parseInfixExpression that parses its right side at the lowest precedence
parseInfixExpression_Greedy(p, left) ==
  Only({[exp |-> InfixExpression(left, p.currToken.Literal, right.exp), p |-> right.p] :
          right \in {parseExpression(nextToken(p), LOWEST)}})

parseInfixExpression(p, left) ==
  LET precedence == curPrecedence(p)
  IN Only({[exp |-> InfixExpression(left, p.currToken.Literal, right.exp),
            p |-> right.p] :
             right \in {parseExpression(nextToken(p), precedence)}})

parseGroupedExpression(p) ==
  Only({Only({IF ~close.ok THEN [exp |-> NilNode, p |-> close.p]
              ELSE [exp |-> e.exp, p |-> close.p] :
                close \in {expectPeek(e.p, ")")}}) :
          e \in {parseExpression(nextToken(p), LOWEST)}})

\* the loop of parseExpression, leftExp being the expression parsed so far
InfixLoop(p, precedence, leftExp) ==
  IF ~peekTokenIs(p, ";") /\ precedence < peekPrecedence(p)
  THEN IF ~HasInfixFn(p.peekToken.Type) THEN [exp |-> leftExp, p |-> p]
       ELSE Only({InfixLoop(e.p, precedence, e.exp) :
                    e \in {parseInfixExpression(nextToken(p), leftExp)}})
  ELSE [exp |-> leftExp, p |-> p]

parseExpression(parser, lowest) ==
  Only({
  IF ~HasPrefixFn(p.currToken.Type)
  THEN [exp |-> NilNode, p |-> noPrefixParseFnError(p, p.currToken.Type)]
  ELSE Only({InfixLoop(leftExp.p, precedence, leftExp.exp) :
               leftExp \in
                 {CASE p.currToken.Type = "IDENT" -> parseIdentifier(p)
                    [] p.currToken.Type = "INT" -> parseIntegerLiteral(p)
                    [] p.currToken.Type \in {"!", "-"} -> parsePrefixExpression(p)
                    [] p.currToken.Type \in {"TRUE", "FALSE"} -> parseBoolean(p)
                    [] OTHER -> parseGroupedExpression(p)}}) :
  p \in {parser}, precedence \in {lowest}})

\* a statement, the Parser after it, and whether the call returns at all
parseExpressionStatement(p) ==
  Only({[stmt |-> ExpressionStatement(e.exp),
         p |-> IF peekTokenIs(e.p, ";") THEN nextToken(e.p) ELSE e.p,
         hangs |-> FALSE] :
          e \in {parseExpression(p, LOWEST)}})

\* for !p.currTokenIs(token.SEMICOLON) { p.nextToken() }: once the lexer is
\* past its input every token to come is EOF and the loop never ends
RECURSIVE SkipToSemicolon(_)
SkipToSemicolon(parser) ==
  Only({IF currTokenIs(p, ";") THEN [p |-> p, hangs |-> FALSE]
        ELSE IF ~peekTokenIs(p, ";") /\ p.l.position >= Len(p.l.input)
        THEN [p |-> p, hangs |-> TRUE]
        ELSE SkipToSemicolon(nextToken(p)) :
          p \in {parser}})

\* a nil *ast.LetStatement: as an ast.Statement it is not the nil interface
NilLetStatement == [type |-> "LetStatement", nil |-> TRUE]

parseLetStatement(p) ==
  Only({
  IF ~name.ok THEN [stmt |-> NilLetStatement, p |-> name.p, hangs |-> FALSE]
  ELSE Only({
       IF ~assign.ok
       THEN [stmt |-> NilLetStatement, p |-> assign.p, hangs |-> FALSE]
       ELSE Only({[stmt |-> LetStatement(Identifier(name.p.currToken.Literal), NilNode),
                   p |-> skipped.p, hangs |-> skipped.hangs] :
                    skipped \in {SkipToSemicolon(assign.p)}}) :
       assign \in {expectPeek(name.p, "=")}}) :
  name \in {expectPeek(p, "IDENT")}})

parseReturnStatement(p) ==
  Only({[stmt |-> ReturnStatement(NilNode), p |-> skipped.p, hangs |-> skipped.hangs] :
          skipped \in {SkipToSemicolon(nextToken(p))}})

parseStatement(p) ==
  CASE p.currToken.Type = "LET" -> parseLetStatement(p)
    [] p.currToken.Type = "RETURN" -> parseReturnStatement(p)
    [] OTHER -> parseExpressionStatement(p)

\* the loop of ParseProgram, stmts being program.Statements so far
RECURSIVE ParseStatements(_, _)
ParseStatements(parser, statements) ==
  Only({
  IF p.currToken.Type = "EOF" THEN [stmts |-> stmts, p |-> p, hangs |-> FALSE]
  ELSE Only({IF r.hangs THEN [stmts |-> stmts, p |-> r.p, hangs |-> TRUE]
             ELSE ParseStatements(nextToken(r.p),
                                  IF r.stmt # NilNode THEN Append(stmts, r.stmt)
                                  ELSE stmts) :
               r \in {parseStatement(p)}}) :
  p \in {parser}, stmts \in {statements}})

\* p.ParseProgram(): the program, p.Errors() after it, and whether it returns
ParseProgram(p) ==
  Only({[program |-> Program(r.stmts), errors |-> r.p.errors, hangs |-> r.hangs] :
          r \in {ParseStatements(p, <<>>)}})

(***************************************************************************)
(* compiler/compiler.go : the compiler.  A Compiler value c has the fields *)
(* of the struct, the heap of symbol tables c.tables that c.symbolTable    *)
(* points into, and c.err, the error Compile returned ("" is nil).         *)
(***************************************************************************)
NoInstruction == [Opcode |-> 0, Position |-> 0]
NewScope ==
  [instructions |-> <<>>, lastInstruction |-> NoInstruction,
   previousInstruction |-> NoInstruction]

\* compiler.New
NewCompiler ==
  [constants |-> <<>>, scopes |-> <<NewScope>>, scopeIndex |-> 0,
   tables |-> NewSymbolTable(<<>>), symbolTable |-> 1, err |-> ""]

CurrentInstructions(c) == At(c.scopes, c.scopeIndex).instructions

\* c.addInstruction, c.setLastInstruction, c.emit: the compiler after the emit
\* (the position emit returns is the length of the instructions before it)
emit(c, op, operands) ==
  LET pos == Len(CurrentInstructions(c))
      i == c.scopeIndex + 1
  IN [c EXCEPT !.scopes[i].instructions = @ \o Make(op, operands),
               !.scopes[i].previousInstruction = c.scopes[i].lastInstruction,
               !.scopes[i].lastInstruction = [Opcode |-> op, Position |-> pos]]

lastInstructionIs(c, op) ==
  IF Len(CurrentInstructions(c)) = 0 THEN FALSE
  ELSE At(c.scopes, c.scopeIndex).lastInstruction.Opcode = op

removeLastPop(c) ==
  LET i == c.scopeIndex + 1
  IN [c EXCEPT !.scopes[i].instructions =
                   SubSeq(@, 1, c.scopes[i].lastInstruction.Position),
               !.scopes[i].lastInstruction = c.scopes[i].previousInstruction]

\* c.replaceInstruction(pos, newInstruction)
replaceInstruction(c, pos, newInstruction) ==
  LET i == c.scopeIndex + 1
  IN [c EXCEPT !.scopes[i].instructions =
        [k \in 1..Len(@) |->
           IF k - 1 >= pos /\ k - 1 < pos + Len(newInstruction)
           THEN At(newInstruction, k - 1 - pos) ELSE @[k]]]

changeOperand(c, opPos, operand) ==
  replaceInstruction(c, opPos, Make(At(CurrentInstructions(c), opPos), <<operand>>))

\* a replaceLastPopWithReturn that leaves lastInstruction.Opcode as it is
replaceLastPopWithReturn_KeepsOpcode(c) ==
  LET i == c.scopeIndex + 1
      lastPos == c.scopes[i].lastInstruction.Position
  IN replaceInstruction(c, lastPos, Make(OpReturnValue, <<>>))

replaceLastPopWithReturn(c) ==
  LET i == c.scopeIndex + 1
      lastPos == c.scopes[i].lastInstruction.Position
  IN [replaceInstruction(c, lastPos, Make(OpReturnValue, <<>>))
        EXCEPT !.scopes[i].lastInstruction.Opcode = OpReturnValue]

\* c.addConstant appends; the index it returns is the length before
addConstant(c, obj) == [c EXCEPT !.constants = Append(@, obj)]

enterScope(c) ==
  [c EXCEPT !.scopes = Append(@, NewScope),
            !.scopeIndex = @ + 1,
            !.tables = NewEnclosedSymbolTable(@, c.symbolTable),
            !.symbolTable = Len(c.tables) + 1]

\* c.leaveScope: the compiler after it (the instructions it returns are those of
\* the scope left)
leaveScope(c) ==
  [c EXCEPT !.scopes = SubSeq(@, 1, Len(@) - 1),
            !.scopeIndex = @ - 1,
            !.symbolTable = c.tables[c.symbolTable].Outer]

Ok(c) == c.err = ""

RECURSIVE DefineAll(_, _)
DefineAll(c, params) ==
  IF params = <<>> THEN c
  ELSE DefineAll([c EXCEPT !.tables = Define(c.tables, c.symbolTable, Head(params).Value).tables],
                 Tail(params))

InfixOpcode(operator) ==
  CASE operator = "+" -> OpAdd
    [] operator = "-" -> OpSub
    [] operator = "*" -> OpMul
    [] operator = "/" -> OpDiv
    [] operator = ">" -> OpGreaterThan
    [] operator = "==" -> OpEqual
    [] operator = "!=" -> OpNotEqual
    [] OTHER -> -1

\* c.Compile(node): the compiler after it; c.err is the error returned
RECURSIVE Compile(_, _), CompileAll(_, _), CompilePairs(_, _)

\* "for _, s := range nodes { err := c.Compile(s); if err != nil { return err } }"
\* (the nodes are taken half by half, which is the loop's order)
CompileAll(c, nodes) ==
  Only({IF nodes = <<>> \/ ~Ok(c0) THEN c0
        ELSE IF Len(nodes) = 1 THEN Compile(c0, nodes[1])
        ELSE CompileAll(CompileAll(c0, SubSeq(nodes, 1, Len(nodes) \div 2)),
                        SubSeq(nodes, Len(nodes) \div 2 + 1, Len(nodes))) :
        c0 \in {c}})

CompilePairs(c, pairs) ==
  IF pairs = <<>> \/ ~Ok(c) THEN c
  ELSE LET c1 == Compile(c, Head(pairs)[1])
           c2 == IF Ok(c1) THEN Compile(c1, Head(pairs)[2]) ELSE c1
       IN CompilePairs(c2, Tail(pairs))

CompileIf(c, node) ==
  LET c1 == Compile(c, node.Condition)
      jumpNotTruthyPos == Len(CurrentInstructions(c1))
      c2 == emit(c1, OpJumpNotTruthy, <<9999>>)
      c3 == Compile(c2, node.Consequence)
      c4 == IF lastInstructionIs(c3, OpPop) THEN removeLastPop(c3) ELSE c3
      jumpPos == Len(CurrentInstructions(c4))
      c5 == emit(c4, OpJump, <<9999>>)
      afterConsequencePos == Len(CurrentInstructions(c5))
      c6 == changeOperand(c5, jumpNotTruthyPos, afterConsequencePos)
      c7 == IF node.Alternative = NilNode THEN emit(c6, OpNull, <<>>)
            ELSE Compile(c6, node.Alternative)
      c8 == IF node.Alternative # NilNode /\ lastInstructionIs(c7, OpPop)
            THEN removeLastPop(c7) ELSE c7
      afterAlternativePos == Len(CurrentInstructions(c8))
  IN IF ~Ok(c1) THEN c1
     ELSE IF ~Ok(c3) THEN c3
     ELSE IF ~Ok(c7) THEN c7
     ELSE changeOperand(c8, jumpPos, afterAlternativePos)

CompileFunctionLiteral(c, node) ==
  LET c1 == DefineAll(enterScope(c), node.Parameters)
      c2 == Compile(c1, node.Body)
      c3 == IF lastInstructionIs(c2, OpPop) THEN replaceLastPopWithReturn(c2) ELSE c2
      c4 == IF ~lastInstructionIs(c3, OpReturnValue) THEN emit(c3, OpReturn, <<>>) ELSE c3
      numLocals == c4.tables[c4.symbolTable].numDefinitions
      instructions == CurrentInstructions(c4)
      c5 == leaveScope(c4)
      compiledFn == CompiledFunction(instructions, numLocals, Len(node.Parameters),
                                     ConstId(Len(c5.constants)))
  IN IF ~Ok(c2) THEN c2
     ELSE emit(addConstant(c5, compiledFn), OpConstant, <<Len(c5.constants)>>)

Compile(c, node) ==
  IF ~Ok(c) THEN c
  ELSE CASE node.type \in {"Program", "BlockStatement"} ->
         CompileAll(c, node.Statements)
    [] node.type = "ExpressionStatement" ->
         LET c1 == Compile(c, node.Expression)
         IN IF ~Ok(c1) THEN c1 ELSE emit(c1, OpPop, <<>>)
    [] node.type = "PrefixExpression" ->
         LET c1 == Compile(c, node.Right)
         IN IF ~Ok(c1) THEN c1
            ELSE IF node.Operator = "!" THEN emit(c1, OpBang, <<>>)
            ELSE IF node.Operator = "-" THEN emit(c1, OpMinus, <<>>)
            ELSE [c1 EXCEPT !.err = "unknown operator " \o node.Operator]
    [] node.type = "InfixExpression" ->
         IF node.Operator = "<"
         THEN LET c1 == Compile(c, node.Right)
                  c2 == Compile(c1, node.Left)
              IN IF ~Ok(c2) THEN c2 ELSE emit(c2, OpGreaterThan, <<>>)
         ELSE LET c1 == Compile(c, node.Left)
                  c2 == Compile(c1, node.Right)
              IN IF ~Ok(c2) THEN c2
                 ELSE IF InfixOpcode(node.Operator) = -1
                 THEN [c2 EXCEPT !.err = "unknown operator " \o node.Operator]
                 ELSE emit(c2, InfixOpcode(node.Operator), <<>>)
    [] node.type = "Boolean" ->
         IF node.BoolValue THEN emit(c, OpTrue, <<>>) ELSE emit(c, OpFalse, <<>>)
    [] node.type = "IntegerLiteral" ->
         emit(addConstant(c, Integer(node.IntValue)), OpConstant, <<Len(c.constants)>>)
    [] node.type = "IfExpression" -> CompileIf(c, node)
    [] node.type = "LetStatement" ->
         LET c1 == Compile(c, node.Value)
             d == Define(c1.tables, c1.symbolTable, node.Name.Value)
             c2 == [c1 EXCEPT !.tables = d.tables]
         IN IF ~Ok(c1) THEN c1
            ELSE IF d.symbol.Scope = GlobalScope
            THEN emit(c2, OpSetGlobal, <<d.symbol.Index>>)
            ELSE emit(c2, OpSetLocal, <<d.symbol.Index>>)
    [] node.type = "Identifier" ->
         LET r == Resolve(c.tables, c.symbolTable, node.Value)
         IN IF ~r.ok THEN [c EXCEPT !.err = "undefined variable " \o node.Value]
            ELSE IF r.obj.Scope = GlobalScope
            THEN emit(c, OpGetGlobal, <<r.obj.Index>>)
            ELSE emit(c, OpGetLocal, <<r.obj.Index>>)
    [] node.type = "StringLiteral" ->
         emit(addConstant(c, String(node.Value, ConstId(Len(c.constants)))),
              OpConstant, <<Len(c.constants)>>)
    [] node.type = "ArrayLiteral" ->
         LET c1 == CompileAll(c, node.Elements)
         IN IF ~Ok(c1) THEN c1 ELSE emit(c1, OpArray, <<Len(node.Elements)>>)
    [] node.type = "HashLiteral" ->
         LET c1 == CompilePairs(c, SortPairs(node.Pairs))
         IN IF ~Ok(c1) THEN c1 ELSE emit(c1, OpHash, <<Len(node.Pairs) * 2>>)
    [] node.type = "IndexExpression" ->
         LET c1 == Compile(c, node.Left)
             c2 == Compile(c1, node.Index)
         IN IF ~Ok(c2) THEN c2 ELSE emit(c2, OpIndex, <<>>)
    [] node.type = "FunctionLiteral" -> CompileFunctionLiteral(c, node)
    [] node.type = "ReturnStatement" ->
         LET c1 == Compile(c, node.ReturnValue)
         IN IF ~Ok(c1) THEN c1 ELSE emit(c1, OpReturnValue, <<>>)
    [] node.type = "CallExpression" ->
         LET c1 == Compile(c, node.Function)
             c2 == CompileAll(c1, node.Arguments)
         IN IF ~Ok(c2) THEN c2 ELSE emit(c2, OpCall, <<Len(node.Arguments)>>)
    [] OTHER -> c

\* c.Bytecode
BytecodeOf(c) ==
  [Instructions |-> CurrentInstructions(c), Constants |-> c.constants]

(***************************************************************************)
(* vm/vm.go, vm/frame.go : the virtual machine                             *)
(***************************************************************************)
StackSize == 2048
GlobalsSize == 65536
MaxFrames == 1024

VARIABLES
  constants,    \* vm.constants: the constants pool of the bytecode
  mainFn,       \* the CompiledFunction vm.New wraps bytecode.Instructions in
  stack,        \* vm.stack
  sp,           \* vm.sp: the next free slot; the top of the stack is stack[sp-1]
  frames,       \* vm.frames
  framesIndex,  \* vm.framesIndex
  globals,      \* vm.globals
  heap,         \* number of objects allocated by Run so far
  status,       \* "running" | "done" (Run returned nil) | "error" (Run returned
                \* an error) | "panic" (a Go run-time panic unwound Run)
  err,          \* the error Run returned, or the panic
  origin,       \* where the bytecode came from: the compiled AST, or "assembled"
  closures,     \* the Closures allocated so far, by identity
  hist,         \* history: the instruction executed last and the state before it
  calls,        \* history: the closure calls that have not returned, oldest first
  captured,     \* history: closure identity -> the values OpClosure gave it
  symtabs,      \* the symbol tables allocated so far (a *SymbolTable is an index)
  resolved,     \* the call of SymbolTable.Resolve made last, and its result
  deflog,       \* per table, the calls that defined a name in it, in order
  asm,          \* the instructions made so far, what ReadOperands read of the
                \* last one and what String() gave of their concatenation
  lexer,        \* the Lexer: input, position, readPosition, ch
  lexed,        \* the token NextToken returned last, and what it returned before
  parsed,       \* the input handed to the parser and the program ParseProgram gave
  session,      \* the console loop: its symbol table, what its last batch was
                \* and the compiler that compiled it
  evaluation,   \* the tree-walking evaluator: the program, the statements it
                \* evaluated, in order, and the object Eval returned
  compilation   \* the compiler on its own: the function literal handed to
                \* Compile and the compiler after it

vmVars == <<constants, mainFn, stack, sp, frames, framesIndex, globals, heap,
            closures, status, err, origin, hist, calls, captured>>
symVars == <<symtabs, resolved, deflog>>
codeVars == <<asm>>
lexVars == <<lexer, lexed>>
parseVars == <<parsed>>
replVars == <<session>>
evalVars == <<evaluation>>
compVars == <<compilation>>
vars == <<vmVars, symVars, codeVars, lexVars, parseVars, replVars, evalVars, compVars>>

\* the VM struct as one value, for the helpers below
Machine ==
  [stack |-> stack, sp |-> sp, frames |-> frames, framesIndex |-> framesIndex,
   globals |-> globals, heap |-> heap, closures |-> closures, status |-> status,
   err |-> err]

Running(m) == m.status = "running"
Panic(m, why) == IF Running(m) THEN [m EXCEPT !.status = "panic", !.err = why] ELSE m
Fail(m, msg) == IF Running(m) THEN [m EXCEPT !.status = "error", !.err = msg] ELSE m

\* read of slot i of an array that was allocated full of nil
Slot(a, i) == IF i \in DOMAIN a THEN a[i] ELSE Nil
Store(a, i, v) == IF i \in DOMAIN a THEN [a EXCEPT ![i] = v] ELSE (i :> v) @@ a
InStack(i) == i >= 0 /\ i < StackSize

\* NewFrame; cl is the identity of the *object.Closure
NewFrame(cl, basePointer) == [cl |-> cl, ip |-> -1, basePointer |-> basePointer]

\* the function a closure points to
FnOf(cl) ==
  IF closures[cl.id].Fn = MainFn THEN mainFn ELSE At(constants, closures[cl.id].Fn)
\* Frame.Instructions
Instructions(f) == FnOf(ClosurePtr(f.cl)).Instructions

\* vm.push with the bounds check of the Go slice made explicit
push(m, o) ==
  IF ~Running(m) THEN m
  ELSE IF m.sp >= StackSize THEN Fail(m, "stack overflow")
  ELSE IF ~InStack(m.sp) THEN Panic(m, "index out of range")
  ELSE [m EXCEPT !.stack = Store(@, m.sp, o), !.sp = @ + 1]

\* a pop that reads the top and leaves sp where it was
pop_KeepSp(m) ==
  IF ~Running(m) THEN [vm |-> m, o |-> Nil]
  ELSE IF ~InStack(m.sp - 1) THEN [vm |-> Panic(m, "index out of range"), o |-> Nil]
  ELSE [vm |-> m, o |-> Slot(m.stack, m.sp - 1)]

\* vm.pop: the value and the machine after it
pop(m) ==
  IF ~Running(m) THEN [vm |-> m, o |-> Nil]
  ELSE IF ~InStack(m.sp - 1) THEN [vm |-> Panic(m, "index out of range"), o |-> Nil]
  ELSE [vm |-> [m EXCEPT !.sp = @ - 1], o |-> Slot(m.stack, m.sp - 1)]

\* vm.currentFrame (the callers run only while framesIndex >= 1)
currentFrame(m) == m.frames[m.framesIndex - 1]

\* currentFrame().ip = ip
SetIp(m, ip) ==
  IF ~Running(m) THEN m ELSE [m EXCEPT !.frames[m.framesIndex - 1].ip = ip]

\* vm.pushFrame
pushFrame(m, f) ==
  IF ~Running(m) THEN m
  ELSE IF m.framesIndex < 0 \/ m.framesIndex >= MaxFrames
       THEN Panic(m, "index out of range")
       ELSE [m EXCEPT !.frames = Store(@, m.framesIndex, f), !.framesIndex = @ + 1]

\* vm.popFrame: the frame and the machine after it
popFrame(m) ==
  IF ~Running(m) THEN [vm |-> m, f |-> NewFrame(Nil, 0)]
  ELSE IF m.framesIndex - 1 < 0 \/ m.framesIndex - 1 >= MaxFrames
       THEN [vm |-> Panic(m, "index out of range"), f |-> NewFrame(Nil, 0)]
       ELSE [vm |-> [m EXCEPT !.framesIndex = @ - 1], f |-> m.frames[m.framesIndex - 1]]

\* allocation of a new object: its identity and the machine after it
NewId(m) == HeapId(m.heap)
Alloc(m) == IF Running(m) THEN [m EXCEPT !.heap = @ + 1] ELSE m

nativeBoolToBooleanObject(input) == IF input THEN True ELSE False

isTruthy(obj) ==
  CASE obj.t = BOOLEAN_OBJ -> obj.b
    [] obj.t = NULL_OBJ -> FALSE
    [] OTHER -> TRUE

(***************************************************************************)
(* The handlers of the instructions.  Each takes the machine m in which    *)
(* the current frame's ip already points at the opcode (Run's ip), and     *)
(* yields the machine after the case of the switch.  Once a helper has     *)
(* returned an error or panicked, the rest of the handler has no effect.   *)
(***************************************************************************)

\* ins[ip+1:] holds fewer than w bytes: ReadUint16 / ReadUint8 panic
Truncated(ins, ip, w) == ip + w > Len(ins) - 1

\* Go's / on int64 truncates toward zero
GoQuot(a, b) ==
  LET abs(x) == IF x < 0 THEN -x ELSE x
      q == abs(a) \div abs(b)
  IN IF (a < 0) = (b < 0) THEN q ELSE -q

executeBinaryIntegerOperation(m, op, left, right) ==
  CASE op = OpAdd -> push(m, Integer(left.n + right.n))
    [] op = OpSub -> push(m, Integer(left.n - right.n))
    [] op = OpMul -> push(m, Integer(left.n * right.n))
    [] op = OpDiv -> IF right.n = 0
                     THEN Panic(m, "integer divide by zero")
                     ELSE push(m, Integer(GoQuot(left.n, right.n)))
    [] OTHER -> Fail(m, "unknown integer operator: " \o ToString(op))

executeBinaryStringOperation(m, op, left, right) ==
  IF op # OpAdd THEN Fail(m, "unknown string operator: " \o ToString(op))
  ELSE push(Alloc(m), String(left.s \o right.s, NewId(m)))

executeBinaryOperation(m, op) ==
  LET r == pop(m)
      l == pop(r.vm)
      right == r.o
      left == l.o
  IN IF ~Running(l.vm) THEN l.vm
     ELSE IF IsNil(left) \/ IsNil(right) THEN Panic(l.vm, "nil pointer dereference")
     ELSE IF Type(left) = INTEGER_OBJ /\ Type(right) = INTEGER_OBJ
          THEN executeBinaryIntegerOperation(l.vm, op, left, right)
     ELSE IF Type(left) = STRING_OBJ /\ Type(right) = STRING_OBJ
          THEN executeBinaryStringOperation(l.vm, op, left, right)
     ELSE Fail(l.vm, "unsupported types for binary operation: "
                       \o Type(left) \o " " \o Type(right))

executeIntegerComparison(m, op, left, right) ==
  CASE op = OpEqual -> push(m, nativeBoolToBooleanObject(right.n = left.n))
    [] op = OpNotEqual -> push(m, nativeBoolToBooleanObject(right.n # left.n))
    [] op = OpGreaterThan -> push(m, nativeBoolToBooleanObject(left.n > right.n))
    [] OTHER -> Fail(m, "unknown operator: " \o ToString(op))

\* right == left on two interface values: the same object
SameObject(a, b) == a = b

executeComparison(m, op) ==
  LET r == pop(m)
      l == pop(r.vm)
      right == r.o
      left == l.o
  IN IF ~Running(l.vm) THEN l.vm
     ELSE IF IsNil(left) \/ IsNil(right) THEN Panic(l.vm, "nil pointer dereference")
     ELSE IF Type(left) = INTEGER_OBJ /\ Type(right) = INTEGER_OBJ
          THEN executeIntegerComparison(l.vm, op, left, right)
     ELSE CASE op = OpEqual ->
                 push(l.vm, nativeBoolToBooleanObject(SameObject(right, left)))
            [] op = OpNotEqual ->
                 push(l.vm, nativeBoolToBooleanObject(~SameObject(right, left)))
            [] OTHER ->
                 Fail(l.vm, "unknown operator: " \o ToString(op) \o " ("
                            \o Type(left) \o " " \o Type(right) \o ")")

executeBangOperator(m) ==
  LET r == pop(m)
  IN CASE r.o = True -> push(r.vm, False)
       [] r.o = False -> push(r.vm, True)
       [] r.o = Null -> push(r.vm, True)
       [] OTHER -> push(r.vm, False)

executeMinusOperator(m) ==
  LET r == pop(m)
  IN IF ~Running(r.vm) THEN r.vm
     ELSE IF IsNil(r.o) THEN Panic(r.vm, "nil pointer dereference")
     ELSE IF Type(r.o) # INTEGER_OBJ
          THEN Fail(r.vm, "unsupported type for negation: " \o Type(r.o))
     ELSE push(r.vm, Integer(-r.o.n))

\* vm.buildArray(startIndex, endIndex): the elements, or a panic
buildArray(m, startIndex, endIndex) ==
  IF startIndex < endIndex /\ (~InStack(startIndex) \/ ~InStack(endIndex - 1))
  THEN [vm |-> Panic(m, "index out of range"), o |-> Nil]
  ELSE [vm |-> Alloc(m),
        o |-> Array([i \in 1..(endIndex - startIndex) |->
                       Slot(m.stack, startIndex + i - 1)], NewId(m))]

\* vm.buildHash(startIndex, endIndex): pairs are entered from the lowest slot up
RECURSIVE buildHashFrom(_, _, _, _)
buildHashFrom(m, i, endIndex, hashedPairs) ==
  IF ~Running(m) \/ i >= endIndex THEN [vm |-> m, pairs |-> hashedPairs]
  ELSE IF ~InStack(i) \/ ~InStack(i + 1)
       THEN [vm |-> Panic(m, "index out of range"), pairs |-> hashedPairs]
  ELSE LET key == Slot(m.stack, i)
           value == Slot(m.stack, i + 1)
       IN IF IsNil(key)
          THEN [vm |-> Panic(m, "nil pointer dereference"), pairs |-> hashedPairs]
          ELSE IF ~Hashable(key)
          THEN [vm |-> Fail(m, "unusable as hash key: " \o Type(key)),
                pairs |-> hashedPairs]
          ELSE buildHashFrom(m, i + 2, endIndex,
                 (HashKey(key) :> [Key |-> key, Value |-> value]) @@ hashedPairs)

buildHash(m, startIndex, endIndex) ==
  LET r == buildHashFrom(m, startIndex, endIndex, <<>>)
  IN [vm |-> Alloc(r.vm), o |-> Hash(r.pairs, NewId(r.vm))]

executeArrayIndex(m, array, index) ==
  LET i == index.n
      max == Len(array.Elements) - 1
  IN IF i < 0 \/ i > max THEN push(m, Null) ELSE push(m, At(array.Elements, i))

\* an executeHashIndex that takes an index that is not Hashable for a key
\* that is not there
executeHashIndex_AnyIndex(m, hash, index) ==
  IF IsNil(index) THEN Panic(m, "nil pointer dereference")
  ELSE IF ~Hashable(index) \/ HashKey(index) \notin DOMAIN hash.Pairs
  THEN push(m, Null)
  ELSE push(m, hash.Pairs[HashKey(index)].Value)

executeHashIndex(m, hash, index) ==
  IF IsNil(index) THEN Panic(m, "nil pointer dereference")
  ELSE IF ~Hashable(index) THEN Fail(m, "unusable as hash key: " \o Type(index))
  ELSE IF HashKey(index) \notin DOMAIN hash.Pairs THEN push(m, Null)
  ELSE push(m, hash.Pairs[HashKey(index)].Value)

executeIndexExpression(m, left, index) ==
  IF ~Running(m) THEN m
  ELSE IF IsNil(left) THEN Panic(m, "nil pointer dereference")
  ELSE IF Type(left) = ARRAY_OBJ /\ IsNil(index) THEN Panic(m, "nil pointer dereference")
  ELSE IF Type(left) = ARRAY_OBJ /\ Type(index) = INTEGER_OBJ
       THEN executeArrayIndex(m, left, index)
  ELSE IF Type(left) = HASH_OBJ THEN executeHashIndex(m, left, index)
  ELSE Fail(m, "index operator not supported: " \o Type(left))

\* object.Builtins: the built-in functions by index (len, first, last, rest,
\* push, puts), each a function of the argument slice; a nil result is Nil
Builtins == <<"len", "first", "last", "rest", "push", "puts">>

BuiltinFn(name, args, id) ==
  CASE name = "len" ->
         IF Len(args) # 1 THEN ErrorObj("wrong number of arguments", id)
         ELSE IF args[1].t = STRING_OBJ THEN Integer(Len(args[1].s))
         ELSE IF args[1].t = ARRAY_OBJ THEN Integer(Len(args[1].Elements))
         ELSE ErrorObj("argument to len not supported", id)
    [] name = "first" ->
         IF Len(args) # 1 THEN ErrorObj("wrong number of arguments", id)
         ELSE IF args[1].t # ARRAY_OBJ THEN ErrorObj("argument to first must be ARRAY", id)
         ELSE IF Len(args[1].Elements) > 0 THEN args[1].Elements[1] ELSE Nil
    [] name = "last" ->
         IF Len(args) # 1 THEN ErrorObj("wrong number of arguments", id)
         ELSE IF args[1].t # ARRAY_OBJ THEN ErrorObj("argument to last must be ARRAY", id)
         ELSE IF Len(args[1].Elements) > 0
              THEN args[1].Elements[Len(args[1].Elements)] ELSE Nil
    [] name = "rest" ->
         IF Len(args) # 1 THEN ErrorObj("wrong number of arguments", id)
         ELSE IF args[1].t # ARRAY_OBJ THEN ErrorObj("argument to rest must be ARRAY", id)
         ELSE IF Len(args[1].Elements) > 0 THEN Array(Tail(args[1].Elements), id) ELSE Nil
    [] name = "push" ->
         IF Len(args) # 2 THEN ErrorObj("wrong number of arguments", id)
         ELSE IF args[1].t # ARRAY_OBJ THEN ErrorObj("argument to push must be ARRAY", id)
         ELSE Array(Append(args[1].Elements, args[2]), id)
    [] OTHER -> Nil

\* a callClosure that does not compare numArgs with NumParameters
callClosure_NoArityCheck(m, cl, numArgs) ==
  LET frame == NewFrame(cl.id, m.sp - numArgs)
      m1 == pushFrame(m, frame)
  IN IF ~Running(m1) THEN m1
     ELSE [m1 EXCEPT !.sp = frame.basePointer + FnOf(cl).NumLocals]

\* a callClosure whose frame starts above the arguments
callClosure_BaseAtSp(m, cl, numArgs) ==
  IF numArgs # FnOf(cl).NumParameters
  THEN Fail(m, "wrong number of arguments: want=" \o ToString(FnOf(cl).NumParameters)
               \o ", got=" \o ToString(numArgs))
  ELSE LET frame == NewFrame(cl.id, m.sp)
           m1 == pushFrame(m, frame)
       IN IF ~Running(m1) THEN m1
          ELSE [m1 EXCEPT !.sp = frame.basePointer + FnOf(cl).NumLocals]

\* vm.callClosure
callClosure(m, cl, numArgs) ==
  IF numArgs # FnOf(cl).NumParameters
  THEN Fail(m, "wrong number of arguments: want=" \o ToString(FnOf(cl).NumParameters)
               \o ", got=" \o ToString(numArgs))
  ELSE LET frame == NewFrame(cl.id, m.sp - numArgs)
           m1 == pushFrame(m, frame)
       IN IF ~Running(m1) THEN m1
          ELSE [m1 EXCEPT !.sp = frame.basePointer + FnOf(cl).NumLocals]

\* vm.callBuiltin (the errors of its two pushes are dropped)
callBuiltin(m, builtin, numArgs) ==
  LET args == [i \in 1..numArgs |-> Slot(m.stack, m.sp - numArgs + i - 1)]
      result == BuiltinFn(builtin.name, args, NewId(m))
      m1 == [Alloc(m) EXCEPT !.sp = m.sp - numArgs - 1]
      m2 == IF ~IsNil(result) THEN push(m1, result) ELSE push(m1, Null)
  IN IF m2.status = "error" THEN m1 ELSE m2

\* vm.executeCall
executeCall(m, numArgs) ==
  IF ~Running(m) THEN m
  ELSE IF ~InStack(m.sp - 1 - numArgs) THEN Panic(m, "index out of range")
  ELSE LET callee == Slot(m.stack, m.sp - 1 - numArgs)
       IN CASE callee.t = CLOSURE_OBJ -> callClosure(m, callee, numArgs)
            [] callee.t = BUILTIN_OBJ -> callBuiltin(m, callee, numArgs)
            [] OTHER -> Fail(m, "calling non-function and non-builtin")

\* a pushClosure that copies the free values from the top of the stack down
pushClosure_Reversed(m, constIndex, numFree) ==
  IF constIndex >= Len(constants) THEN Panic(m, "index out of range")
  ELSE LET function == At(constants, constIndex)
       IN IF function.t # COMPILED_FUNCTION_OBJ THEN Fail(m, "not a function")
          ELSE IF numFree > 0 /\ (~InStack(m.sp - numFree) \/ ~InStack(m.sp - 1))
          THEN Panic(m, "index out of range")
          ELSE LET free == [i \in 1..numFree |-> Slot(m.stack, m.sp - i)]
                   m1 == [Alloc(m) EXCEPT !.sp = m.sp - numFree]
                   closure == Closure(constIndex, free)
               IN push([m1 EXCEPT !.closures = (NewId(m) :> closure) @@ @],
                       ClosurePtr(NewId(m)))

\* vm.pushClosure
pushClosure(m, constIndex, numFree) ==
  IF constIndex >= Len(constants) THEN Panic(m, "index out of range")
  ELSE LET function == At(constants, constIndex)
       IN IF function.t # COMPILED_FUNCTION_OBJ THEN Fail(m, "not a function")
          ELSE IF numFree > 0 /\ (~InStack(m.sp - numFree) \/ ~InStack(m.sp - 1))
          THEN Panic(m, "index out of range")
          ELSE LET free == [i \in 1..numFree |-> Slot(m.stack, m.sp - numFree + i - 1)]
                   m1 == [Alloc(m) EXCEPT !.sp = m.sp - numFree]
                   closure == Closure(constIndex, free)
               IN push([m1 EXCEPT !.closures = (NewId(m) :> closure) @@ @],
                       ClosurePtr(NewId(m)))

(***************************************************************************)
(* VM.Run: the cases of the switch, one operator per case                  *)
(***************************************************************************)
RunBinary(m, ins, ip) == executeBinaryOperation(m, At(ins, ip))

RunConstant(m, ins, ip) ==
  IF Truncated(ins, ip, 2) THEN Panic(m, "slice bounds out of range")
  ELSE LET constIndex == ReadUint16(ins, ip + 1)
           m1 == SetIp(m, ip + 2)
       IN IF constIndex >= Len(constants) THEN Panic(m1, "index out of range")
          ELSE push(m1, At(constants, constIndex))

RunTrue(m, ins, ip) == push(m, True)

RunFalse(m, ins, ip) == push(m, False)

RunComparison(m, ins, ip) == executeComparison(m, At(ins, ip))

RunBang(m, ins, ip) == executeBangOperator(m)

RunMinus(m, ins, ip) == executeMinusOperator(m)

RunPop(m, ins, ip) == pop(m).vm

RunJump(m, ins, ip) ==
  IF Truncated(ins, ip, 2) THEN Panic(m, "slice bounds out of range")
  ELSE SetIp(m, ReadUint16(ins, ip + 1) - 1)

RunJumpNotTruthy(m, ins, ip) ==
  IF Truncated(ins, ip, 2) THEN Panic(m, "slice bounds out of range")
  ELSE LET pos == ReadUint16(ins, ip + 1)
           r == pop(SetIp(m, ip + 2))
       IN IF ~isTruthy(r.o) THEN SetIp(r.vm, pos - 1) ELSE r.vm

RunNull(m, ins, ip) == push(m, Null)

RunSetGlobal(m, ins, ip) ==
  IF Truncated(ins, ip, 2) THEN Panic(m, "slice bounds out of range")
  ELSE LET globalIndex == ReadUint16(ins, ip + 1)
           r == pop(SetIp(m, ip + 2))
       IN IF ~Running(r.vm) THEN r.vm
          ELSE [r.vm EXCEPT !.globals = Store(@, globalIndex, r.o)]

RunGetGlobal(m, ins, ip) ==
  IF Truncated(ins, ip, 2) THEN Panic(m, "slice bounds out of range")
  ELSE LET globalIndex == ReadUint16(ins, ip + 1)
       IN push(SetIp(m, ip + 2), Slot(m.globals, globalIndex))

RunArray(m, ins, ip) ==
  IF Truncated(ins, ip, 2) THEN Panic(m, "slice bounds out of range")
  ELSE LET numElements == ReadUint16(ins, ip + 1)
           m1 == SetIp(m, ip + 2)
           r == buildArray(m1, m1.sp - numElements, m1.sp)
       IN IF ~Running(r.vm) THEN r.vm
          ELSE push([r.vm EXCEPT !.sp = @ - numElements], r.o)

RunHash(m, ins, ip) ==
  IF Truncated(ins, ip, 2) THEN Panic(m, "slice bounds out of range")
  ELSE LET numElements == ReadUint16(ins, ip + 1)
           m1 == SetIp(m, ip + 2)
           r == buildHash(m1, m1.sp - numElements, m1.sp)
       IN IF ~Running(r.vm) THEN r.vm
          ELSE push([r.vm EXCEPT !.sp = @ - numElements], r.o)

RunIndex(m, ins, ip) ==
  LET i == pop(m)
      l == pop(i.vm)
  IN executeIndexExpression(l.vm, l.o, i.o)

RunCall(m, ins, ip) ==
  IF Truncated(ins, ip, 1) THEN Panic(m, "index out of range")
  ELSE executeCall(SetIp(m, ip + 1), ReadUint8(ins, ip + 1))

RunSetLocal(m, ins, ip) ==
  IF Truncated(ins, ip, 1) THEN Panic(m, "index out of range")
  ELSE LET localIndex == ReadUint8(ins, ip + 1)
           m1 == SetIp(m, ip + 1)
           frame == currentFrame(m1)
           r == pop(m1)
       IN IF ~Running(r.vm) THEN r.vm
          ELSE IF ~InStack(frame.basePointer + localIndex)
               THEN Panic(r.vm, "index out of range")
               ELSE [r.vm EXCEPT !.stack = Store(@, frame.basePointer + localIndex, r.o)]

RunGetLocal(m, ins, ip) ==
  IF Truncated(ins, ip, 1) THEN Panic(m, "index out of range")
  ELSE LET localIndex == ReadUint8(ins, ip + 1)
           m1 == SetIp(m, ip + 1)
           frame == currentFrame(m1)
       IN IF ~InStack(frame.basePointer + localIndex)
          THEN Panic(m1, "index out of range")
          ELSE push(m1, Slot(m1.stack, frame.basePointer + localIndex))

RunReturnValue(m, ins, ip) ==
  LET r == pop(m)
      f == popFrame(r.vm)
  IN IF ~Running(f.vm) THEN f.vm
     ELSE push([f.vm EXCEPT !.sp = f.f.basePointer - 1], r.o)

\* an OpReturn that leaves the callee on the stack, below the Null
RunReturn_SpAtBase(m, ins, ip) ==
  LET f == popFrame(m)
      m1 == IF Running(f.vm) THEN [f.vm EXCEPT !.sp = f.f.basePointer] ELSE f.vm
      m2 == push(m1, Null)
  IN IF m2.status = "error" THEN [m1 EXCEPT !.status = "done"] ELSE m2

\* the error of this push is answered with "return nil"
RunReturn(m, ins, ip) ==
  LET f == popFrame(m)
      m1 == IF Running(f.vm) THEN [f.vm EXCEPT !.sp = f.f.basePointer - 1] ELSE f.vm
      m2 == push(m1, Null)
  IN IF m2.status = "error" THEN [m1 EXCEPT !.status = "done"] ELSE m2

RunGetBuiltin(m, ins, ip) ==
  IF Truncated(ins, ip, 1) THEN Panic(m, "index out of range")
  ELSE LET builtinIndex == ReadUint8(ins, ip + 1)
           m1 == SetIp(m, ip + 1)
       IN IF builtinIndex >= Len(Builtins) THEN Panic(m1, "index out of range")
          ELSE push(m1, Builtin(At(Builtins, builtinIndex)))

RunClosure(m, ins, ip) ==
  IF Truncated(ins, ip, 3) THEN Panic(m, "index out of range")
  ELSE pushClosure(SetIp(m, ip + 3), ReadUint16(ins, ip + 1), ReadUint8(ins, ip + 3))

RunGetFree(m, ins, ip) ==
  IF Truncated(ins, ip, 1) THEN Panic(m, "index out of range")
  ELSE LET freeIndex == ReadUint8(ins, ip + 1)
           m1 == SetIp(m, ip + 1)
           currentClosure == m1.closures[currentFrame(m1).cl]
       IN IF freeIndex >= Len(currentClosure.Free) THEN Panic(m1, "index out of range")
          ELSE push(m1, At(currentClosure.Free, freeIndex))

RunCurrentClosure(m, ins, ip) == push(m, ClosurePtr(currentFrame(m).cl))

\* an opcode byte none of the cases names: the switch does nothing
RunNoCase(m, ins, ip) == m

(***************************************************************************)
(* Bytecode handed to vm.New that uses the closure instructions.  Each is  *)
(* the code of the Monkey program quoted above it, unless it says not.     *)
(***************************************************************************)
Fn(i, body, numLocals, numParameters) ==
  CompiledFunction(Concat(body), numLocals, numParameters, ConstId(i))

Bytecode(name, ins, consts) ==
  [Instructions |-> Concat(ins), Constants |-> consts,
   origin |-> [kind |-> "assembled", name |-> name]]

\* let newAdder = fn(a) { fn(b) { a + b } }; let addTwo = newAdder(2); addTwo(3);
AdderProgram ==
  Bytecode("adder",
    << Make(OpClosure, <<1, 0>>), Make(OpSetGlobal, <<0>>),
       Make(OpGetGlobal, <<0>>), Make(OpConstant, <<2>>), Make(OpCall, <<1>>),
       Make(OpSetGlobal, <<1>>),
       Make(OpGetGlobal, <<1>>), Make(OpConstant, <<3>>), Make(OpCall, <<1>>),
       Make(OpPop, <<>>) >>,
    << Fn(0, << Make(OpGetFree, <<0>>), Make(OpGetLocal, <<0>>), Make(OpAdd, <<>>),
                Make(OpReturnValue, <<>>) >>, 1, 1),
       Fn(1, << Make(OpGetLocal, <<0>>), Make(OpClosure, <<0, 1>>),
                Make(OpReturnValue, <<>>) >>, 1, 1),
       Integer(2), Integer(3) >>)

\* let f = fn(a) { a }; f();
TooFewArgsProgram ==
  Bytecode("tooFewArgs",
    << Make(OpClosure, <<0, 0>>), Make(OpSetGlobal, <<0>>),
       Make(OpGetGlobal, <<0>>), Make(OpCall, <<0>>), Make(OpPop, <<>>) >>,
    << Fn(0, << Make(OpGetLocal, <<0>>), Make(OpReturnValue, <<>>) >>, 1, 1) >>)

\* 7 + fn() { 1 }(2, 3);
TooManyArgsProgram ==
  Bytecode("tooManyArgs",
    << Make(OpConstant, <<1>>), Make(OpClosure, <<0, 0>>),
       Make(OpConstant, <<2>>), Make(OpConstant, <<3>>), Make(OpCall, <<2>>),
       Make(OpAdd, <<>>), Make(OpPop, <<>>) >>,
    << Fn(0, << Make(OpConstant, <<4>>), Make(OpReturnValue, <<>>) >>, 0, 0),
       Integer(7), Integer(2), Integer(3), Integer(1) >>)

\* 7 + fn(a, b) { let c = a + b; c }(1, 2);
LocalsProgram ==
  Bytecode("locals",
    << Make(OpConstant, <<1>>), Make(OpClosure, <<0, 0>>),
       Make(OpConstant, <<2>>), Make(OpConstant, <<3>>), Make(OpCall, <<2>>),
       Make(OpAdd, <<>>), Make(OpPop, <<>>) >>,
    << Fn(0, << Make(OpGetLocal, <<0>>), Make(OpGetLocal, <<1>>), Make(OpAdd, <<>>),
                Make(OpSetLocal, <<2>>), Make(OpGetLocal, <<2>>),
                Make(OpReturnValue, <<>>) >>, 3, 2),
       Integer(7), Integer(1), Integer(2) >>)

\* let n = fn() { }; [n(), n()];
ReturnProgram ==
  Bytecode("return",
    << Make(OpClosure, <<0, 0>>), Make(OpSetGlobal, <<0>>),
       Make(OpGetGlobal, <<0>>), Make(OpCall, <<0>>),
       Make(OpGetGlobal, <<0>>), Make(OpCall, <<0>>),
       Make(OpArray, <<2>>), Make(OpPop, <<>>) >>,
    << Fn(0, << Make(OpReturn, <<>>) >>, 0, 0) >>)

\* let f = fn() { f() }; f();
RecursionProgram ==
  Bytecode("recursion",
    << Make(OpClosure, <<0, 0>>), Make(OpSetGlobal, <<0>>),
       Make(OpGetGlobal, <<0>>), Make(OpCall, <<0>>), Make(OpPop, <<>>) >>,
    << Fn(0, << Make(OpCurrentClosure, <<>>), Make(OpCall, <<0>>),
                Make(OpReturnValue, <<>>) >>, 0, 0) >>)

\* the code of "let l0 = 1; ... let l<n-1> = 1;" in a function whose constant
\* k is 1: n times OpConstant k; OpSetLocal i
LetOnes(n, k) ==
  [j \in 1..(5 * n) |->
     At(Make(OpConstant, <<k>>) \o Make(OpSetLocal, <<(j - 1) \div 5>>), (j - 1) % 5)]

\* let w = fn() { w(); let l0 = 1; ... let l254 = 1; }; 1 + w();
WideLocalsProgram ==
  Bytecode("wideLocals",
    << Make(OpClosure, <<0, 0>>), Make(OpSetGlobal, <<0>>),
       Make(OpConstant, <<1>>), Make(OpGetGlobal, <<0>>), Make(OpCall, <<0>>),
       Make(OpAdd, <<>>), Make(OpPop, <<>>) >>,
    << Fn(0, << Make(OpCurrentClosure, <<>>), Make(OpCall, <<0>>), Make(OpPop, <<>>),
                LetOnes(255, 1), Make(OpReturn, <<>>) >>, 255, 0),
       Integer(1) >>)

\* let c = fn(n) { if (n == 0) { 0 } else { c(n - 1) } }; c(2);
CountdownProgram ==
  Bytecode("countdown",
    << Make(OpClosure, <<0, 0>>), Make(OpSetGlobal, <<0>>),
       Make(OpGetGlobal, <<0>>), Make(OpConstant, <<3>>), Make(OpCall, <<1>>),
       Make(OpPop, <<>>) >>,
    << Fn(0, << Make(OpGetLocal, <<0>>), Make(OpConstant, <<1>>), Make(OpEqual, <<>>),
                Make(OpJumpNotTruthy, <<15>>),
                Make(OpConstant, <<1>>), Make(OpJump, <<24>>),
                Make(OpCurrentClosure, <<>>), Make(OpGetLocal, <<0>>),
                Make(OpConstant, <<2>>), Make(OpSub, <<>>), Make(OpCall, <<1>>),
                Make(OpReturnValue, <<>>) >>, 1, 1),
       Integer(0), Integer(1), Integer(2) >>)

\* A function that stores to the local it captured after building the closure
\* (slot 0 is written again before the closure is called):
\* fn() { a = 1; f = fn() { a }; a = 2; f() }();
RebindProgram ==
  Bytecode("rebind",
    << Make(OpClosure, <<1, 0>>), Make(OpCall, <<0>>), Make(OpPop, <<>>) >>,
    << Fn(0, << Make(OpGetFree, <<0>>), Make(OpReturnValue, <<>>) >>, 0, 0),
       Fn(1, << Make(OpConstant, <<2>>), Make(OpSetLocal, <<0>>),
                Make(OpGetLocal, <<0>>), Make(OpClosure, <<0, 1>>),
                Make(OpSetLocal, <<1>>),
                Make(OpConstant, <<3>>), Make(OpSetLocal, <<0>>),
                Make(OpGetLocal, <<1>>), Make(OpCall, <<0>>),
                Make(OpReturnValue, <<>>) >>, 2, 0),
       Integer(1), Integer(2) >>)

\* fn(a, b) { fn() { [a, b] } }(1, 2)();
TwoFreeProgram ==
  Bytecode("twoFree",
    << Make(OpClosure, <<1, 0>>), Make(OpConstant, <<2>>), Make(OpConstant, <<3>>),
       Make(OpCall, <<2>>), Make(OpCall, <<0>>), Make(OpPop, <<>>) >>,
    << Fn(0, << Make(OpGetFree, <<0>>), Make(OpGetFree, <<1>>), Make(OpArray, <<2>>),
                Make(OpReturnValue, <<>>) >>, 0, 0),
       Fn(1, << Make(OpGetLocal, <<0>>), Make(OpGetLocal, <<1>>),
                Make(OpClosure, <<0, 2>>), Make(OpReturnValue, <<>>) >>, 2, 2),
       Integer(1), Integer(2) >>)

\* len("ab"); puts(1); first([]); len(fn() { }, 1)
BuiltinProgram ==
  Bytecode("builtins",
    << Make(OpGetBuiltin, <<0>>), Make(OpConstant, <<0>>), Make(OpCall, <<1>>),
       Make(OpPop, <<>>),
       Make(OpGetBuiltin, <<5>>), Make(OpConstant, <<1>>), Make(OpCall, <<1>>),
       Make(OpPop, <<>>),
       Make(OpGetBuiltin, <<1>>), Make(OpArray, <<0>>), Make(OpCall, <<1>>),
       Make(OpPop, <<>>),
       Make(OpGetBuiltin, <<0>>), Make(OpClosure, <<2, 0>>), Make(OpConstant, <<1>>),
       Make(OpCall, <<2>>), Make(OpPop, <<>>) >>,
    << String("ab", ConstId(0)), Integer(1),
       Fn(2, << Make(OpReturn, <<>>) >>, 0, 0) >>)

\* a byte that is no opcode, between the instructions of "true;"
StrayByteProgram ==
  Bytecode("strayByte", << <<255>>, Make(OpTrue, <<>>), <<200>>, Make(OpPop, <<>>) >>, <<>>)

AssembledPrograms ==
  {AdderProgram, TooFewArgsProgram, TooManyArgsProgram, LocalsProgram, ReturnProgram,
   RecursionProgram, WideLocalsProgram, CountdownProgram, RebindProgram,
   TwoFreeProgram, BuiltinProgram, StrayByteProgram}

(***************************************************************************)
(* The programs handed to the compiler: a last statement out of            *)
(* LastStatements, preceded by up to MaxPrefix statements out of           *)
(* PrefixStatements, over integer literals 0..MaxInt.                      *)
(***************************************************************************)
MaxInt == 1
MaxPrefix == 1

Ints == {IntegerLiteral(n) : n \in 0..MaxInt}
One == IntegerLiteral(1)
A == Identifier("a")
B == Identifier("b")
X == Identifier("x")

Blocks ==
  { BlockStatement(<<>>),
    BlockStatement(<<ExpressionStatement(One)>>),
    BlockStatement(<<ExpressionStatement(One), ExpressionStatement(A)>>),
    BlockStatement(<<LetStatement(B, One)>>),
    BlockStatement(<<ReturnStatement(One)>>) }

Functions ==
  { FunctionLiteral(<<>>, BlockStatement(<<>>)),
    FunctionLiteral(<<>>, BlockStatement(<<ExpressionStatement(One)>>)),
    FunctionLiteral(<<X>>, BlockStatement(<<ReturnStatement(X)>>)),
    FunctionLiteral(<<X>>, BlockStatement(<<LetStatement(B, X), ExpressionStatement(B)>>)),
    FunctionLiteral(<<>>, BlockStatement(<<LetStatement(B, One)>>)) }

Expressions ==
  Ints
  \cup {Boolean(TRUE), Boolean(FALSE), A, StringLiteral("s")}
  \cup {PrefixExpression("-", One), PrefixExpression("!", A)}
  \cup {InfixExpression(l, op, r) : l \in Ints, op \in {"+", "/"}, r \in Ints}
  \cup {InfixExpression(One, op, A) : op \in {"-", "*", "<", ">", "==", "!="}}
  \cup {InfixExpression(StringLiteral("s"), op, StringLiteral("s")) :
          op \in {"+", "==", "!="}}
  \cup {IfExpression(Boolean(c), cons, NilNode) : c \in BOOLEAN, cons \in Blocks}
  \cup {IfExpression(A, BlockStatement(<<ExpressionStatement(One)>>), alt) : alt \in Blocks}
  \cup Functions
  \cup {CallExpression(f, args) : f \in Functions \cup {A}, args \in {<<>>, <<One>>}}
  \cup {ArrayLiteral(<<>>), ArrayLiteral(<<One, A>>),
        HashLiteral(<< <<IntegerLiteral(10), One>>, <<IntegerLiteral(2), A>> >>),
        HashLiteral(<< <<ArrayLiteral(<<>>), One>> >>),
        IndexExpression(ArrayLiteral(<<One, A>>), One),
        IndexExpression(HashLiteral(<< <<One, A>> >>), One),
        IndexExpression(One, One)}
  \cup {IndexExpression(HashLiteral(<< <<One, One>> >>), index) :
          index \in {IntegerLiteral(0), Boolean(TRUE), StringLiteral("s"),
                     ArrayLiteral(<<>>), FunctionLiteral(<<>>, BlockStatement(<<>>))}}
  \cup {HashLiteral(<< <<FunctionLiteral(<<>>, BlockStatement(<<>>)), One>> >>)}

LastStatements ==
  {ExpressionStatement(e) : e \in Expressions}
  \cup {LetStatement(B, e) : e \in Ints \cup {A, InfixExpression(One, "+", A),
           IfExpression(A, BlockStatement(<<LetStatement(B, One)>>), NilNode)}}
  \cup {ReturnStatement(e) : e \in {NilNode, One, A}}

PrefixStatements ==
  {LetStatement(A, e) : e \in Ints \cup {Boolean(FALSE), StringLiteral("s"),
                                         FunctionLiteral(<<>>, BlockStatement(<<>>))}}
  \cup {ExpressionStatement(One)}

RECURSIVE Prefixes(_)
Prefixes(n) ==
  IF n = 0 THEN {<<>>}
  ELSE Prefixes(n - 1) \cup
       {Append(p, st) : p \in {q \in Prefixes(n - 1) : Len(q) = n - 1},
                        st \in PrefixStatements}

SourcePrograms ==
  {Program(Append(p, st)) : p \in Prefixes(MaxPrefix), st \in LastStatements}

\* compile every program; those Compile returns an error for are never run
CompiledPrograms ==
  {[Instructions |-> BytecodeOf(Compile(NewCompiler, ast)).Instructions,
    Constants |-> BytecodeOf(Compile(NewCompiler, ast)).Constants,
    origin |-> [kind |-> "compiled", ast |-> ast]] :
     ast \in {program \in SourcePrograms : Ok(Compile(NewCompiler, program))}}

\* the compiled code of a function literal, called: the closure of the
\* function is made and called with OpTrue for each of its parameters
CalledBytecode(f, bytecode) ==
  [Instructions |->
     Make(OpClosure, <<Len(bytecode.Constants) - 1, 0>>)
     \o Concat([i \in 1..Len(f.Parameters) |-> Make(OpTrue, <<>>)])
     \o Make(OpCall, <<Len(f.Parameters)>>) \o Make(OpPop, <<>>),
   Constants |-> bytecode.Constants,
   origin |-> [kind |-> "called", ast |-> Program(<<ExpressionStatement(f)>>)]]

CalledPrograms ==
  {CalledBytecode(f, BytecodeOf(Compile(NewCompiler, Program(<<ExpressionStatement(f)>>)))) :
     f \in Functions}

Programs == AssembledPrograms \cup CompiledPrograms \cup CalledPrograms

(***************************************************************************)
(* The state machine of one Run                                            *)
(***************************************************************************)
NoCall == [sp |-> 0, framesIndex |-> 0, numArgs |-> 0, ip |-> -1]
NoHist == [op |-> -1, ip |-> -1, sp |-> 0, framesIndex |-> 1, old |-> <<>>,
           frame |-> NewFrame(MainClosure, 0), call |-> NoCall]
NoRead == [operands |-> <<>>, offset |-> -1]
NoListing == [out |-> <<>>, hangs |-> FALSE, called |-> FALSE]
NoAsm == [instructions |-> <<>>, read |-> NoRead, listing |-> NoListing,
          bytes |-> <<>>, dump |-> NoListing]
NoLexer == [input |-> <<>>, position |-> 0, readPosition |-> 0, ch |-> 0]
NoLexed == [tok |-> NoToken, afterEOF |-> FALSE, eofSeen |-> FALSE, tokens |-> 0]
NoParsed == [input |-> <<>>, kind |-> "none", operands |-> <<>>, prefixes |-> <<>>,
             ops |-> <<>>, done |-> FALSE, program |-> Program(<<>>),
             errors |-> <<>>, hangs |-> FALSE]
NoResolve == [table |-> NilTable, name |-> "", obj |-> NoSymbol, ok |-> FALSE,
              holder |-> NilTable, again |-> FALSE, first |-> NoSymbol,
              changed |-> FALSE]

\* no console loop runs, no program is evaluated
NoSession == [kind |-> "none"]
NoEvaluation == [kind |-> "none"]
NoCompilation == [kind |-> "none"]

\* vm.New(bytecode), followed by the call of Run
Init ==
  \E bytecode \in Programs :
    /\ constants = bytecode.Constants
    /\ mainFn = CompiledFunction(bytecode.Instructions, 0, 0, <<"main", 0>>)
    /\ stack = <<>>
    /\ sp = 0
    /\ frames = (0 :> NewFrame(MainClosure, 0))
    /\ closures = (MainClosure :> Closure(MainFn, <<>>))
    /\ framesIndex = 1
    /\ globals = <<>>
    /\ heap = 0
    /\ status = "running"
    /\ err = ""
    /\ origin = bytecode.origin
    /\ hist = NoHist
    /\ calls = <<>>
    /\ captured = <<>>
    /\ symtabs = <<>>
    /\ resolved = NoResolve
    /\ deflog = <<>>
    /\ asm = NoAsm
    /\ lexer = NoLexer
    /\ lexed = NoLexed
    /\ parsed = NoParsed
    /\ session = NoSession
    /\ evaluation = NoEvaluation
    /\ compilation = NoCompilation
  /\ compilation = NoCompilation

\* the condition of Run's loop
LoopCondition ==
  currentFrame(Machine).ip < Len(Instructions(currentFrame(Machine))) - 1

\* the opcode the next iteration decodes
NextOp == At(Instructions(currentFrame(Machine)), currentFrame(Machine).ip + 1)

\* Run's loop goes round once more and decodes an opcode in ops
Decodes(ops) ==
  /\ status = "running"
  /\ LoopCondition
  /\ NextOp \in ops

\* the fetch of an iteration: ip++, ins, and the machine after ip++
FetchIp == currentFrame(Machine).ip + 1
FetchIns == Instructions(currentFrame(Machine))
Fetched == SetIp(Machine, FetchIp)

\* one iteration of Run's loop, m1 being the machine its case of the switch
\* leaves
Iteration(m1) ==
  /\ LET cf == currentFrame(Machine)
         ins == FetchIns
         ip == FetchIp
     IN /\ stack' = m1.stack
        /\ sp' = m1.sp
        /\ frames' = m1.frames
        /\ framesIndex' = m1.framesIndex
        /\ globals' = m1.globals
        /\ heap' = m1.heap
        /\ closures' = m1.closures
        /\ status' = m1.status
        /\ err' = m1.err
        /\ hist' = [op |-> At(ins, ip), ip |-> ip, sp |-> sp,
                    framesIndex |-> framesIndex, frame |-> cf,
                    old |-> [i \in {j \in DOMAIN stack \cup DOMAIN m1.stack :
                                     Slot(stack, j) # Slot(m1.stack, j)}
                               |-> Slot(stack, i)],
                    call |-> IF calls = <<>> THEN NoCall ELSE calls[Len(calls)]]
        /\ calls' =
             IF At(ins, ip) = OpCall /\ m1.framesIndex = framesIndex + 1
             THEN Append(calls, [sp |-> sp, framesIndex |-> framesIndex,
                                 numArgs |-> ReadUint8(ins, ip + 1), ip |-> ip + 1])
             ELSE IF At(ins, ip) \in {OpReturnValue, OpReturn}
                     /\ m1.framesIndex = framesIndex - 1 /\ calls # <<>>
             THEN SubSeq(calls, 1, Len(calls) - 1)
             ELSE calls
        /\ captured' =
             IF At(ins, ip) = OpClosure /\ Running(m1)
             THEN LET cl == Slot(m1.stack, m1.sp - 1)
                  IN (cl.id :> m1.closures[cl.id].Free) @@ captured
             ELSE captured
  /\ UNCHANGED <<constants, mainFn, origin, symVars, codeVars, lexVars, parseVars, replVars, evalVars, compVars>>

HandledOps ==
  {OpAdd, OpSub, OpMul, OpDiv, OpConstant, OpTrue, OpFalse, OpEqual, OpNotEqual,
   OpGreaterThan, OpBang, OpMinus, OpPop, OpJump, OpJumpNotTruthy, OpNull,
   OpSetGlobal, OpGetGlobal, OpArray, OpHash, OpIndex, OpCall, OpSetLocal,
   OpGetLocal, OpReturnValue, OpReturn, OpGetBuiltin, OpClosure, OpGetFree,
   OpCurrentClosure}

DoBinary == Decodes({OpAdd, OpSub, OpMul, OpDiv}) /\ Iteration(RunBinary(Fetched, FetchIns, FetchIp))
DoConstant == Decodes({OpConstant}) /\ Iteration(RunConstant(Fetched, FetchIns, FetchIp))
DoTrue == Decodes({OpTrue}) /\ Iteration(RunTrue(Fetched, FetchIns, FetchIp))
DoFalse == Decodes({OpFalse}) /\ Iteration(RunFalse(Fetched, FetchIns, FetchIp))
DoComparison == Decodes({OpEqual, OpNotEqual, OpGreaterThan}) /\ Iteration(RunComparison(Fetched, FetchIns, FetchIp))
DoBang == Decodes({OpBang}) /\ Iteration(RunBang(Fetched, FetchIns, FetchIp))
DoMinus == Decodes({OpMinus}) /\ Iteration(RunMinus(Fetched, FetchIns, FetchIp))
DoPop == Decodes({OpPop}) /\ Iteration(RunPop(Fetched, FetchIns, FetchIp))
DoJump == Decodes({OpJump}) /\ Iteration(RunJump(Fetched, FetchIns, FetchIp))
DoJumpNotTruthy == Decodes({OpJumpNotTruthy}) /\ Iteration(RunJumpNotTruthy(Fetched, FetchIns, FetchIp))
DoNull == Decodes({OpNull}) /\ Iteration(RunNull(Fetched, FetchIns, FetchIp))
DoSetGlobal == Decodes({OpSetGlobal}) /\ Iteration(RunSetGlobal(Fetched, FetchIns, FetchIp))
DoGetGlobal == Decodes({OpGetGlobal}) /\ Iteration(RunGetGlobal(Fetched, FetchIns, FetchIp))
DoArray == Decodes({OpArray}) /\ Iteration(RunArray(Fetched, FetchIns, FetchIp))
DoHash == Decodes({OpHash}) /\ Iteration(RunHash(Fetched, FetchIns, FetchIp))
DoIndex == Decodes({OpIndex}) /\ Iteration(RunIndex(Fetched, FetchIns, FetchIp))
DoCall == Decodes({OpCall}) /\ Iteration(RunCall(Fetched, FetchIns, FetchIp))
DoSetLocal == Decodes({OpSetLocal}) /\ Iteration(RunSetLocal(Fetched, FetchIns, FetchIp))
DoGetLocal == Decodes({OpGetLocal}) /\ Iteration(RunGetLocal(Fetched, FetchIns, FetchIp))
DoReturnValue == Decodes({OpReturnValue}) /\ Iteration(RunReturnValue(Fetched, FetchIns, FetchIp))
DoReturn == Decodes({OpReturn}) /\ Iteration(RunReturn(Fetched, FetchIns, FetchIp))
DoGetBuiltin == Decodes({OpGetBuiltin}) /\ Iteration(RunGetBuiltin(Fetched, FetchIns, FetchIp))
DoClosure == Decodes({OpClosure}) /\ Iteration(RunClosure(Fetched, FetchIns, FetchIp))
DoGetFree == Decodes({OpGetFree}) /\ Iteration(RunGetFree(Fetched, FetchIns, FetchIp))
DoCurrentClosure == Decodes({OpCurrentClosure}) /\ Iteration(RunCurrentClosure(Fetched, FetchIns, FetchIp))
DoNoCase == Decodes((0..255) \ HandledOps) /\ Iteration(RunNoCase(Fetched, FetchIns, FetchIp))

\* the loop condition fails: Run returns nil
RunReturnsNil ==
  /\ status = "running"
  /\ ~LoopCondition
  /\ status' = "done"
  /\ UNCHANGED <<constants, mainFn, stack, sp, frames, framesIndex, globals, heap,
                 closures, err, origin, hist, calls, captured, symVars,
                 codeVars, lexVars, parseVars, replVars, evalVars, compVars>>

Next ==
  \/ DoBinary \/ DoConstant \/ DoTrue \/ DoFalse \/ DoComparison \/ DoBang
  \/ DoMinus \/ DoPop \/ DoJump \/ DoJumpNotTruthy \/ DoNull \/ DoSetGlobal
  \/ DoGetGlobal \/ DoArray \/ DoHash \/ DoIndex \/ DoCall \/ DoSetLocal
  \/ DoGetLocal \/ DoReturnValue \/ DoReturn \/ DoGetBuiltin \/ DoClosure
  \/ DoGetFree \/ DoCurrentClosure \/ DoNoCase \/ RunReturnsNil

Spec == Init /\ [][Next]_vars

(***************************************************************************)
(* The symbol table on its own: tables are made, names defined in them and *)
(* resolved from them, in any order.                                       *)
(***************************************************************************)
MaxTables == 3
MaxDefinitions == 2
Names == {"a", "b"}

\* the names of object.Builtins, a builtin's index being its place in the list
BuiltinNames == <<"a", "b">>

\* the number of calls logged so far, over all tables
RECURSIVE Logged(_)
Logged(log) == IF log = <<>> THEN 0 ELSE Len(Head(log)) + Logged(Tail(log))

\* the number of calls of Define made so far, over all tables
RECURSIVE Definitions(_)
Definitions(tabs) ==
  IF tabs = <<>> THEN 0 ELSE Head(tabs).numDefinitions + Definitions(Tail(tabs))

\* the table of the chain of s that name is found in, NilTable if none
RECURSIVE Holder(_, _, _)
Holder(tabs, s, name) ==
  IF name \in DOMAIN tabs[s].store THEN s
  ELSE IF tabs[s].Outer # NilTable THEN Holder(tabs, tabs[s].Outer, name)
  ELSE NilTable

\* no VM runs
VmIdle ==
  /\ constants = <<>>
  /\ mainFn = CompiledFunction(<<>>, 0, 0, <<"main", 0>>)
  /\ stack = <<>>
  /\ sp = 0
  /\ frames = (0 :> NewFrame(MainClosure, 0))
  /\ closures = (MainClosure :> Closure(MainFn, <<>>))
  /\ framesIndex = 1
  /\ globals = <<>>
  /\ heap = 0
  /\ status = "idle"
  /\ err = ""
  /\ origin = [kind |-> "none"]
  /\ hist = NoHist
  /\ calls = <<>>
  /\ captured = <<>>

\* global := NewSymbolTable()
SymInit ==
  /\ symtabs = NewSymbolTable(<<>>)
  /\ resolved = NoResolve
  /\ deflog = <<(<<>>)>>
  /\ VmIdle
  /\ session = NoSession
  /\ evaluation = NoEvaluation
  /\ compilation = NoCompilation
  /\ asm = NoAsm
  /\ lexer = NoLexer
  /\ lexed = NoLexed
  /\ parsed = NoParsed

SymNewEnclosed ==
  /\ Len(symtabs) < MaxTables
  /\ \E outer \in 1..Len(symtabs) :
       symtabs' = NewEnclosedSymbolTable(symtabs, outer)
  /\ deflog' = Append(deflog, <<>>)
  /\ resolved' = NoResolve
  /\ UNCHANGED <<vmVars, codeVars, lexVars, parseVars, replVars, evalVars, compVars>>

SymDefine ==
  /\ \E s \in 1..Len(symtabs), name \in Names :
       /\ Definitions(symtabs) < MaxDefinitions
       /\ Logged(deflog) < MaxDefinitions
       /\ symtabs' = Define(symtabs, s, name).tables
       /\ deflog' = [deflog EXCEPT ![s] =
                       Append(@, [op |-> "Define", name |-> name,
                                  symbol |-> Define(symtabs, s, name).symbol])]
  /\ resolved' = NoResolve
  /\ UNCHANGED <<vmVars, codeVars, lexVars, parseVars, replVars, evalVars, compVars>>

\* for i, v := range object.Builtins { symbolTable.DefineBuiltin(i, v.Name) },
\* in any order
SymDefineBuiltin ==
  /\ \E i \in 1..Len(BuiltinNames) :
       /\ Logged(deflog) < MaxDefinitions
       /\ symtabs' = DefineBuiltin(symtabs, 1, i - 1, BuiltinNames[i]).tables
       /\ deflog' = [deflog EXCEPT ![1] =
                       Append(@, [op |-> "DefineBuiltin", name |-> BuiltinNames[i],
                                  symbol |-> DefineBuiltin(symtabs, 1, i - 1,
                                                           BuiltinNames[i]).symbol])]
  /\ resolved' = NoResolve
  /\ UNCHANGED <<vmVars, codeVars, lexVars, parseVars, replVars, evalVars, compVars>>

SymDefineFunctionName ==
  /\ \E s \in 1..Len(symtabs), name \in Names :
       /\ Logged(deflog) < MaxDefinitions
       /\ symtabs' = DefineFunctionName(symtabs, s, name).tables
       /\ deflog' = [deflog EXCEPT ![s] =
                       Append(@, [op |-> "DefineFunctionName", name |-> name,
                                  symbol |-> DefineFunctionName(symtabs, s, name).symbol])]
  /\ resolved' = NoResolve
  /\ UNCHANGED <<vmVars, codeVars, lexVars, parseVars, replVars, evalVars, compVars>>

SymResolve ==
  /\ \E s \in 1..Len(symtabs), name \in Names :
       LET again == resolved.table = s /\ resolved.name = name
           r == Resolve(symtabs, s, name)
       IN /\ resolved' = [table |-> s, name |-> name,
                          obj |-> r.obj,
                          ok |-> r.ok,
                          holder |-> Holder(symtabs, s, name),
                          again |-> again,
                          first |-> IF again THEN resolved.first ELSE r.obj,
                          changed |-> r.tables # symtabs]
          /\ symtabs' = r.tables
  /\ UNCHANGED <<deflog, vmVars, codeVars, lexVars, parseVars, replVars, evalVars, compVars>>

SymNext ==
  \/ SymNewEnclosed
  \/ SymDefine
  \/ SymDefineBuiltin
  \/ SymDefineFunctionName
  \/ SymResolve

SpecSym == SymInit /\ [][SymNext]_vars

(***************************************************************************)
(* The lexer on its own: a Lexer is made for an input and NextToken is     *)
(* called on it again and again.                                           *)
(***************************************************************************)
MaxInput == 3
\* the number of calls of NextToken made beyond the end of the input
MaxTrailing == 2

\* the bytes inputs are made of: a space, the two bytes that may start a
\* two-byte token, a letter, a digit, a quote, a byte no token starts with
\* and the byte 0
InputBytes ==
  {Ord(" "), Ord("="), Ord("!"), Ord("a"), Ord("1"), Ord("\""), Ord("@"), 0}

RECURSIVE Strings(_, _)
Strings(bytes, n) ==
  IF n = 0 THEN {<<>>}
  ELSE Strings(bytes, n - 1)
       \cup {Append(t, b) : t \in Strings(bytes, n - 1), b \in bytes}

\* l := lexer.New(input)
LexInit ==
  /\ \E input \in Strings(InputBytes, MaxInput) : lexer = NewLexer(input)
  /\ lexed = NoLexed
  /\ VmIdle
  /\ session = NoSession
  /\ evaluation = NoEvaluation
  /\ compilation = NoCompilation
  /\ symtabs = <<>>
  /\ resolved = NoResolve
  /\ deflog = <<>>
  /\ asm = NoAsm
  /\ parsed = NoParsed

\* tok := l.NextToken()
LexNextToken ==
  /\ lexer.readPosition <= Len(lexer.input) + MaxTrailing
  /\ lexer' = NextToken(lexer).l
  /\ lexed' = [tok |-> NextToken(lexer).tok,
               afterEOF |-> lexed.eofSeen,
               eofSeen |-> lexed.eofSeen \/ NextToken(lexer).tok.Type = "EOF",
               tokens |-> lexed.tokens
                          + (IF NextToken(lexer).tok.Type = "EOF" THEN 0 ELSE 1)]
  /\ UNCHANGED <<vmVars, symVars, codeVars, parseVars, replVars, evalVars, compVars>>

LexNext == LexNextToken

SpecLex == LexInit /\ [][LexNext]_vars

(***************************************************************************)
(* The parser on its own: a program is parsed that is one expression       *)
(* statement, a chain of up to MaxOperands operands, each with or without  *)
(* a prefix operator, joined by binary operators; or one of a few other    *)
(* programs.                                                               *)
(***************************************************************************)
MaxOperands == 3

\* the binary operators, the bytes of each
BinaryOperators ==
  {<<61, 61>>, <<33, 61>>, <<60>>, <<62>>, <<43>>, <<45>>, <<42>>, <<47>>}
\* no prefix operator, - and !
PrefixOperators == {<<>>, <<45>>, <<33>>}
\* the operands a, b, c, ... of a chain of n
OperandNames(n) == [i \in 1..n |-> <<96 + i>>]

\* the source text of a chain: operators are set off by spaces
RECURSIVE ChainSource(_, _, _)
ChainSource(operands, prefixes, ops) ==
  IF Len(operands) = 1 THEN prefixes[1] \o operands[1]
  ELSE prefixes[1] \o operands[1] \o <<32>> \o ops[1] \o <<32>>
       \o ChainSource(Tail(operands), Tail(prefixes), Tail(ops))

\* the chain of n operands with these prefix and binary operators
Chain(n, pre, ops) ==
  [kind |-> "chain", operands |-> OperandNames(n), prefixes |-> pre,
   ops |-> ops, input |-> ChainSource(OperandNames(n), pre, ops)]

OtherSources ==
  {[kind |-> "other", operands |-> <<>>, prefixes |-> <<>>, ops |-> <<>>,
    input |-> src] :
     src \in {<<108, 101, 116, 32, 97, 32, 61, 32, 98, 59>>,  \* let a = b;
              <<108, 101, 116, 32, 97>>,                       \* let a
              <<108, 101, 116, 32, 97, 32, 61, 32, 98>>,       \* let a = b
              <<114, 101, 116, 117, 114, 110, 32, 97, 59>>,    \* return a;
              <<114, 101, 116, 117, 114, 110, 32, 97>>,        \* return a
              <<40, 97, 32, 43, 32, 98, 41, 32, 42, 32, 99>>,  \* (a + b) * c
              <<40, 97, 32, 43, 32, 98>>,                      \* (a + b
              <<49, 48, 32, 60, 32, 48, 56>>,                  \* 10 < 08
              <<116, 114, 117, 101, 32, 61, 61, 32, 33, 102, 97, 108, 115,
                101, 59, 32, 43>>}}                            \* true == !false; +

ParseInit ==
  /\ \/ \E n \in 1..MaxOperands :
          \E pre \in [1..n -> PrefixOperators],
             ops \in [1..(n - 1) -> BinaryOperators] :
            parsed = [NoParsed EXCEPT !.input = Chain(n, pre, ops).input,
                                      !.kind = "chain",
                                      !.operands = OperandNames(n),
                                      !.prefixes = pre, !.ops = ops]
     \/ \E src \in OtherSources :
          parsed = [NoParsed EXCEPT !.input = src.input, !.kind = src.kind]
  /\ VmIdle
  /\ session = NoSession
  /\ evaluation = NoEvaluation
  /\ compilation = NoCompilation
  /\ symtabs = <<>>
  /\ resolved = NoResolve
  /\ deflog = <<>>
  /\ asm = NoAsm
  /\ lexer = NoLexer
  /\ lexed = NoLexed

\* l := lexer.New(input); p := parser.New(l); program := p.ParseProgram()
Parse ==
  /\ ~parsed.done
  /\ \E r \in {ParseProgram(NewParser(NewLexer(parsed.input)))} :
       parsed' = [parsed EXCEPT !.done = TRUE, !.program = r.program,
                                !.errors = r.errors, !.hangs = r.hangs]
  /\ UNCHANGED <<vmVars, symVars, codeVars, lexVars, replVars, evalVars, compVars>>

ParseNext == Parse

SpecParse == ParseInit /\ [][ParseNext]_vars

(***************************************************************************)
(* The code package on its own, as code_test.go drives it: instructions    *)
(* are made and appended, the operands of the last one are read back, and  *)
(* the concatenation is disassembled.                                      *)
(***************************************************************************)
MaxInstructions == 2

\* the operand values tried for a width: one that fits and tells the bytes of
\* a uint16 apart, and one that does not fit
OperandValues(width) ==
  IF width = 2 THEN {65534, 65537} ELSE {255, 256}

\* the operand lists tried for an opcode, one operand per width
OperandLists(widths) ==
  IF widths = <<>> THEN {<<>>}
  ELSE IF Len(widths) = 1 THEN {<<x>> : x \in OperandValues(widths[1])}
  ELSE {<<x, y>> : x \in OperandValues(widths[1]), y \in OperandValues(widths[2])}

CodeInit ==
  /\ asm = NoAsm
  /\ VmIdle
  /\ session = NoSession
  /\ evaluation = NoEvaluation
  /\ compilation = NoCompilation
  /\ symtabs = <<>>
  /\ resolved = NoResolve
  /\ deflog = <<>>
  /\ lexer = NoLexer
  /\ lexed = NoLexed
  /\ parsed = NoParsed

\* instructions = append(instructions, code.Make(op, operands...))
CodeMake ==
  /\ Len(asm.instructions) < MaxInstructions
  /\ \E op \in DOMAIN definitions :
       \E operands \in OperandLists(definitions[op]) :
         asm' = [instructions |->
                   Append(asm.instructions,
                          [op |-> op, operands |-> operands,
                           instruction |-> Make(op, operands)]),
                 read |-> NoRead,
                 listing |-> NoListing,
                 bytes |-> <<>>,
                 dump |-> NoListing]
  /\ UNCHANGED <<vmVars, symVars, lexVars, parseVars, replVars, evalVars, compVars>>

\* def, err := code.Lookup(byte(op)); code.ReadOperands(def, instruction[1:]),
\* of the instruction made last
CodeReadOperands ==
  /\ asm.instructions # <<>>
  /\ LET last == asm.instructions[Len(asm.instructions)]
     IN asm' = [asm EXCEPT !.read =
                  ReadOperands(definitions[last.op], Tail(last.instruction))]
  /\ UNCHANGED <<vmVars, symVars, lexVars, parseVars, replVars, evalVars, compVars>>

\* concatted = append(concatted, ins...) for each; concatted.String()
CodeString ==
  /\ LET concatted == Concat([k \in 1..Len(asm.instructions) |->
                                asm.instructions[k].instruction])
         r == InstructionsString(concatted)
     IN asm' = [asm EXCEPT !.listing =
                  [out |-> r.out, hangs |-> r.hangs, called |-> TRUE]]
  /\ UNCHANGED <<vmVars, symVars, lexVars, parseVars, replVars, evalVars, compVars>>

\* Instructions(bytes).String() of bytes that Make did not make: the opcodes
\* of two instructions without operands and a byte that is no opcode
MaxBytes == 2
RawBytes == {OpAdd, OpPop, 255}

CodeStringBytes ==
  /\ asm.instructions = <<>>
  /\ \E n \in 1..MaxBytes :
       \E bytes \in [1..n -> RawBytes] :
         \E r \in {InstructionsString(bytes)} :
           asm' = [asm EXCEPT !.bytes = bytes,
                              !.dump = [out |-> r.out, hangs |-> r.hangs,
                                        called |-> TRUE]]
  /\ UNCHANGED <<vmVars, symVars, lexVars, parseVars, replVars, evalVars, compVars>>

CodeNext == CodeMake \/ CodeReadOperands \/ CodeString \/ CodeStringBytes

SpecCode == CodeInit /\ [][CodeNext]_vars

(***************************************************************************)
(* The console loop, Start: the symbol table, the constants and the        *)
(* globals outlive the batches.  session.tables is the heap whose table 1  *)
(* is symbolTable; constants and globals are the loop's variables of the   *)
(* same names, which the compiler and the VM of a batch are given.  A      *)
(* batch is the program of a line that parsed without errors (a line with  *)
(* parser errors changes nothing).                                         *)
(***************************************************************************)
MaxBatches == 3

C == Identifier("c")

\* the programs of the lines read
Batches ==
  {Program(<<LetStatement(A, One)>>),
   Program(<<LetStatement(A, IntegerLiteral(2))>>),
   Program(<<LetStatement(B, A)>>),
   Program(<<ExpressionStatement(A)>>),
   Program(<<ExpressionStatement(B)>>),
   Program(<<ExpressionStatement(PrefixExpression("-", Boolean(TRUE)))>>),
   Program(<<LetStatement(B, One), ExpressionStatement(C)>>),
   Program(<<ExpressionStatement(FunctionLiteral(<<>>,
               BlockStatement(<<ExpressionStatement(C)>>)))>>),
   Program(<<ExpressionStatement(FunctionLiteral(<<>>,
               BlockStatement(<<ExpressionStatement(FunctionLiteral(<<A>>,
                 BlockStatement(<<ExpressionStatement(C)>>)))>>)))>>)}

\* a NewWithState that keeps the symbol table compiler.New made
NewWithState_NewTable(tables, s, pool) ==
  [NewCompiler EXCEPT !.constants = pool]

\* compiler.NewWithState(s, constants), s being a table of the heap tables
NewWithState(tables, s, pool) ==
  [NewCompiler EXCEPT !.tables = tables, !.symbolTable = s, !.constants = pool]

\* for i, v := range object.Builtins { symbolTable.DefineBuiltin(i, v.Name) },
\* from the i-th builtin on
RECURSIVE DefineBuiltins(_, _)
DefineBuiltins(tables, i) ==
  IF i > Len(Builtins) THEN tables
  ELSE DefineBuiltins(DefineBuiltin(tables, 1, i - 1, Builtins[i]).tables, i + 1)

\* Start, up to the first prompt
ReplInit ==
  /\ session = [kind |-> "repl",
                tables |-> DefineBuiltins(NewSymbolTable(<<>>), 1),
                batches |-> 0, program |-> Program(<<>>),
                before |-> DefineBuiltins(NewSymbolTable(<<>>), 1),
                comp |-> NewCompiler, failed |-> FALSE, clean |-> TRUE]
  /\ VmIdle
  /\ evaluation = NoEvaluation
  /\ compilation = NoCompilation
  /\ symtabs = <<>>
  /\ resolved = NoResolve
  /\ deflog = <<>>
  /\ asm = NoAsm
  /\ lexer = NoLexer
  /\ lexed = NoLexed
  /\ parsed = NoParsed

\* one round of the loop of Start, up to the call of machine.Run: the line's
\* program is compiled by a compiler made of the session's table and
\* constants; an error of Compile ends the round, else the constants become
\* those of the bytecode and a VM is made of the bytecode and the globals.
\* The table the compiler defined names in is the session's own (a pointer),
\* whatever Compile returned; the tables it enclosed in it are dropped.
ReplBatch(program) ==
  /\ session.kind = "repl"
  /\ status \in {"idle", "done", "error"}
  /\ session.batches < MaxBatches
  /\ \E c \in {Compile(NewWithState(session.tables, 1, constants), program)} :
       /\ session' = [session EXCEPT !.tables = <<c.tables[1]>>,
                                     !.batches = @ + 1,
                                     !.program = program,
                                     !.before = session.tables,
                                     !.comp = c,
                                     !.failed = ~Ok(c),
                                     !.clean = @ /\ Ok(c) /\ status # "error"]
       /\ constants' = IF Ok(c) THEN BytecodeOf(c).Constants ELSE constants
       /\ mainFn' = IF Ok(c)
                    THEN CompiledFunction(BytecodeOf(c).Instructions, 0, 0, <<"main", 0>>)
                    ELSE CompiledFunction(<<>>, 0, 0, <<"main", 0>>)
       /\ status' = IF Ok(c) THEN "running" ELSE "idle"
       /\ origin' = IF Ok(c) THEN [kind |-> "repl", ast |-> program]
                    ELSE [kind |-> "none"]
  /\ stack' = <<>>
  /\ sp' = 0
  /\ frames' = (0 :> NewFrame(MainClosure, 0))
  /\ closures' = (MainClosure :> Closure(MainFn, <<>>))
  /\ framesIndex' = 1
  /\ err' = ""
  /\ hist' = NoHist
  /\ calls' = <<>>
  /\ captured' = <<>>
  /\ UNCHANGED <<globals, heap, symVars, codeVars, lexVars, parseVars, evalVars, compVars>>

ReplRead == \E program \in Batches : ReplBatch(program)

\* the rounds of the loop, and between them the iterations of machine.Run
ReplNext ==
  \/ ReplRead
  \/ DoConstant \/ DoTrue \/ DoMinus \/ DoPop \/ DoSetGlobal \/ DoGetGlobal
  \/ RunReturnsNil

SpecRepl == ReplInit /\ [][ReplNext]_vars

(***************************************************************************)
(* The tree-walking evaluator.  An Environment is a pointer into the heap  *)
(* e.envs (0 is nil); e.log is the history of the loops of evalProgram and *)
(* evalBlockStatement: a "begin" entry when a statement is handed to Eval, *)
(* an "end" entry with the object Eval returned; e.ids numbers the objects *)
(* allocated; e.panic is the run-time panic that ended the evaluation.     *)
(* Every function takes the state e and gives (o, e): the object returned  *)
(* and the state after.                                                    *)
(***************************************************************************)
RETURN_VALUE_OBJ == "RETURN_VALUE"
FUNCTION_OBJ == "FUNCTION"

ReturnValue(value, id) == [t |-> RETURN_VALUE_OBJ, Value |-> value, id |-> id]
Function(params, env, body, id) ==
  [t |-> FUNCTION_OBJ, Parameters |-> params, Env |-> env, Body |-> body, id |-> id]

Ret(o, e) == [o |-> o, e |-> e]
Panicked(e) == e.panic # ""
EvalPanic(e, why) == Ret(Nil, [e EXCEPT !.panic = why])
NilDereference(e) == EvalPanic(e, "invalid memory address or nil pointer dereference")

\* object.NewEnvironment / NewEnclosedEnvironment(outer): the new pointer is
\* Len(e.envs) + 1
NewEnclosedEnvironment(e, outer) ==
  [e EXCEPT !.envs = Append(@, [store |-> <<>>, outer |-> outer])]

\* env.Get(name): (obj, ok)
RECURSIVE EnvGet(_, _, _)
EnvGet(envs, env, name) ==
  IF name \in DOMAIN envs[env].store
  THEN [obj |-> envs[env].store[name], ok |-> TRUE]
  ELSE IF envs[env].outer # 0 THEN EnvGet(envs, envs[env].outer, name)
  ELSE [obj |-> Nil, ok |-> FALSE]

\* env.Set(name, val)
EnvSet(e, env, name, val) ==
  [e EXCEPT !.envs[env].store = (name :> val) @@ @]

newError(e, msg) == Ret(ErrorObj(msg, e.ids), [e EXCEPT !.ids = @ + 1])

isError(obj) == obj # Nil /\ obj.t = ERROR_OBJ

evalBangOperatorExpression(right) ==
  IF right = True THEN False
  ELSE IF right = False THEN True
  ELSE IF right = Null THEN True
  ELSE False

evalMinusPrefixOperatorExpression(e, right) ==
  IF right = Nil THEN NilDereference(e)
  ELSE IF right.t # INTEGER_OBJ THEN newError(e, "unknown operator: -" \o right.t)
  ELSE Ret(Integer(0 - right.n), e)

evalPrefixExpression(e, operator, right) ==
  IF operator = "!" THEN Ret(evalBangOperatorExpression(right), e)
  ELSE IF operator = "-" THEN evalMinusPrefixOperatorExpression(e, right)
  ELSE IF right = Nil THEN NilDereference(e)
  ELSE newError(e, "unknown operator: " \o operator \o right.t)

evalIntegerInfixExpression(e, operator, left, right) ==
  CASE operator = "<" -> Ret(nativeBoolToBooleanObject(left.n < right.n), e)
    [] operator = ">" -> Ret(nativeBoolToBooleanObject(left.n > right.n), e)
    [] operator = "==" -> Ret(nativeBoolToBooleanObject(left.n = right.n), e)
    [] operator = "!=" -> Ret(nativeBoolToBooleanObject(left.n # right.n), e)
    [] operator = "+" -> Ret(Integer(left.n + right.n), e)
    [] operator = "-" -> Ret(Integer(left.n - right.n), e)
    [] operator = "*" -> Ret(Integer(left.n * right.n), e)
    [] operator = "/" ->
         IF right.n = 0 THEN EvalPanic(e, "integer divide by zero")
         ELSE Ret(Integer(GoQuot(left.n, right.n)), e)
    [] OTHER -> newError(e, "unknown operator: " \o left.t \o " " \o operator
                            \o " " \o right.t)

evalStringInfixExpression(e, operator, left, right) ==
  IF operator # "+"
  THEN newError(e, "unknown operator: " \o left.t \o " " \o operator \o " " \o right.t)
  ELSE Ret(String(left.s \o right.s, e.ids), [e EXCEPT !.ids = @ + 1])

\* the cases of the switch in their order; left.Type() and right.Type() are
\* calls through a nil interface when the operand is nil
evalInfixExpression(e, operator, left, right) ==
  IF left = Nil THEN NilDereference(e)
  ELSE IF left.t = INTEGER_OBJ /\ right = Nil THEN NilDereference(e)
  ELSE IF left.t = INTEGER_OBJ /\ right.t = INTEGER_OBJ
  THEN evalIntegerInfixExpression(e, operator, left, right)
  ELSE IF left.t = STRING_OBJ /\ right = Nil THEN NilDereference(e)
  ELSE IF left.t = STRING_OBJ /\ right.t = STRING_OBJ
  THEN evalStringInfixExpression(e, operator, left, right)
  ELSE IF operator = "==" THEN Ret(nativeBoolToBooleanObject(left = right), e)
  ELSE IF operator = "!=" THEN Ret(nativeBoolToBooleanObject(left # right), e)
  ELSE IF right = Nil THEN NilDereference(e)
  ELSE IF left.t # right.t
  THEN newError(e, "type mismatch: " \o left.t \o " " \o operator \o " " \o right.t)
  ELSE newError(e, "unknown operator: " \o left.t \o " " \o operator \o " " \o right.t)

\* the evaluator's isTruthy
evalIsTruthy(obj) ==
  IF obj = Null THEN FALSE
  ELSE IF obj = True THEN TRUE
  ELSE IF obj = False THEN FALSE
  ELSE TRUE

evalIdentifier(e, node, env) ==
  IF ~EnvGet(e.envs, env, node.Value).ok
  THEN newError(e, "identifier not found: " \o node.Value)
  ELSE Ret(EnvGet(e.envs, env, node.Value).obj, e)

\* extendFunctionEnv, from the i-th parameter on, env being the new
\* environment
RECURSIVE SetParameters(_, _, _, _, _)
SetParameters(e, fn, args, i, env) ==
  IF i > Len(fn.Parameters) THEN Ret(Nil, e)
  ELSE IF i > Len(args) THEN EvalPanic(e, "index out of range")
  ELSE SetParameters(EnvSet(e, env, fn.Parameters[i].Value, args[i]), fn, args,
                     i + 1, env)

unwrapReturnValue(obj) ==
  IF obj # Nil /\ obj.t = RETURN_VALUE_OBJ THEN obj.Value ELSE obj

LogBegin(e, statement) ==
  [e EXCEPT !.log = Append(@, [ev |-> "begin", statement |-> statement, o |-> Nil])]
LogEnd(r, statement) ==
  IF Panicked(r.e) THEN r
  ELSE Ret(r.o, [r.e EXCEPT !.log =
                   Append(@, [ev |-> "end", statement |-> statement, o |-> r.o])])

RECURSIVE Eval(_, _, _)
RECURSIVE evalProgramFrom(_, _, _, _, _)
RECURSIVE evalBlockStatementFrom(_, _, _, _, _)
RECURSIVE evalBlockStatementFrom_NoReturn(_, _, _, _, _)
RECURSIVE evalExpressionsFrom(_, _, _, _, _)

\* the loop of evalProgram from the i-th statement on, result being the
\* object of the statement before
evalProgramFrom(e, stmts, i, env, result) ==
  IF i > Len(stmts) THEN Ret(result, e)
  ELSE Only({IF Panicked(r.e) THEN r
             ELSE IF r.o.t = RETURN_VALUE_OBJ THEN Ret(r.o.Value, r.e)
             ELSE IF r.o.t = ERROR_OBJ THEN r
             ELSE evalProgramFrom(r.e, stmts, i + 1, env, r.o) :
             r \in {LogEnd(Eval(LogBegin(e, stmts[i]), stmts[i], env),
                               stmts[i])}})

evalProgram(e, stmts, env) == evalProgramFrom(e, stmts, 1, env, Nil)

\* a loop of evalBlockStatement that goes on to the next statement whatever
\* the object of a statement is
evalBlockStatementFrom_NoReturn(e, stmts, i, env, result) ==
  IF i > Len(stmts) THEN Ret(result, e)
  ELSE Only({IF Panicked(r.e) THEN r
             ELSE evalBlockStatementFrom_NoReturn(r.e, stmts, i + 1, env, r.o) :
             r \in {LogEnd(Eval(LogBegin(e, stmts[i]), stmts[i], env),
                               stmts[i])}})

\* the loop of evalBlockStatement from the i-th statement on
evalBlockStatementFrom(e, stmts, i, env, result) ==
  IF i > Len(stmts) THEN Ret(result, e)
  ELSE Only({IF Panicked(r.e) THEN r
             ELSE IF r.o # Nil /\ r.o.t \in {RETURN_VALUE_OBJ, ERROR_OBJ} THEN r
             ELSE evalBlockStatementFrom(r.e, stmts, i + 1, env, r.o) :
             r \in {LogEnd(Eval(LogBegin(e, stmts[i]), stmts[i], env),
                               stmts[i])}})

evalBlockStatement(e, block, env) ==
  evalBlockStatementFrom(e, block.Statements, 1, env, Nil)

\* evalExpressions from the i-th expression on: o is the slice of objects
evalExpressionsFrom(e, exps, i, env, result) ==
  IF i > Len(exps) THEN Ret(result, e)
  ELSE Only({IF Panicked(r.e) THEN r
             ELSE IF isError(r.o) THEN Ret(<<r.o>>, r.e)
             ELSE evalExpressionsFrom(r.e, exps, i + 1, env, Append(result, r.o)) :
             r \in {Eval(e, exps[i], env)}})

evalExpressions(e, exps, env) == evalExpressionsFrom(e, exps, 1, env, <<>>)

evalIfExpression(e, ie, env) ==
  Only({IF Panicked(c.e) \/ isError(c.o) THEN c
        ELSE IF evalIsTruthy(c.o) THEN Eval(c.e, ie.Consequence, env)
        ELSE IF ie.Alternative # NilNode THEN Eval(c.e, ie.Alternative, env)
        ELSE Ret(Null, c.e) :
        c \in {Eval(e, ie.Condition, env)}})

\* applyFunction(fn, args): the body is evaluated in a new environment that
\* encloses the function's
applyFunction(e, fn, args) ==
  IF fn = Nil THEN NilDereference(e)
  ELSE IF fn.t # FUNCTION_OBJ THEN newError(e, "not a function: " \o fn.t)
  ELSE Only({IF Panicked(x.e) THEN x
             ELSE Only({IF Panicked(r.e) THEN r ELSE Ret(unwrapReturnValue(r.o), r.e) :
                        r \in {Eval(x.e, fn.Body, Len(e.envs) + 1)}}) :
             x \in {SetParameters(NewEnclosedEnvironment(e, fn.Env), fn, args, 1,
                                  Len(e.envs) + 1)}})

\* Eval(node, env)
Eval(e, node, env) ==
  CASE node.type = "Program" -> evalProgram(e, node.Statements, env)
    [] node.type = "IntegerLiteral" -> Ret(Integer(node.IntValue), e)
    [] node.type = "Identifier" -> evalIdentifier(e, node, env)
    [] node.type = "Boolean" -> Ret(nativeBoolToBooleanObject(node.BoolValue), e)
    [] node.type = "PrefixExpression" ->
         Only({IF Panicked(right.e) \/ isError(right.o) THEN right
               ELSE evalPrefixExpression(right.e, node.Operator, right.o) :
               right \in {Eval(e, node.Right, env)}})
    [] node.type = "ExpressionStatement" -> Eval(e, node.Expression, env)
    [] node.type = "FunctionLiteral" ->
         Ret(Function(node.Parameters, env, node.Body, e.ids),
             [e EXCEPT !.ids = @ + 1])
    [] node.type = "CallExpression" ->
         Only({IF Panicked(function.e) \/ isError(function.o) THEN function
               ELSE Only({IF Panicked(args.e) THEN args
                          ELSE IF Len(args.o) = 1 /\ isError(args.o[1])
                          THEN Ret(args.o[1], args.e)
                          ELSE applyFunction(args.e, function.o, args.o) :
                          args \in {evalExpressions(function.e, node.Arguments, env)}}) :
               function \in {Eval(e, node.Function, env)}})
    [] node.type = "InfixExpression" ->
         Only({IF Panicked(left.e) \/ isError(left.o) THEN left
               ELSE Only({IF Panicked(right.e) \/ isError(right.o) THEN right
                          ELSE evalInfixExpression(right.e, node.Operator, left.o,
                                                   right.o) :
                          right \in {Eval(left.e, node.Right, env)}}) :
               left \in {Eval(e, node.Left, env)}})
    [] node.type = "BlockStatement" -> evalBlockStatement(e, node, env)
    [] node.type = "IfExpression" -> evalIfExpression(e, node, env)
    [] node.type = "ReturnStatement" ->
         Only({IF Panicked(val.e) \/ isError(val.o) THEN val
               ELSE Ret(ReturnValue(val.o, val.e.ids), [val.e EXCEPT !.ids = @ + 1]) :
               val \in {Eval(e, node.ReturnValue, env)}})
    [] node.type = "LetStatement" ->
         Only({IF Panicked(val.e) \/ isError(val.o) THEN val
               ELSE Ret(Nil, EnvSet(val.e, env, node.Name.Value, val.o)) :
               val \in {Eval(e, node.Value, env)}})
    [] node.type = "StringLiteral" ->
         Ret(String(node.Value, e.ids), [e EXCEPT !.ids = @ + 1])
    [] OTHER -> Ret(Nil, e)

MaxStatements == 2

MinusTrue == ExpressionStatement(PrefixExpression("-", Boolean(TRUE)))

\* the statements of the programs evaluated
EvalStatements ==
  {ExpressionStatement(One),
   LetStatement(A, One),
   ExpressionStatement(A),
   MinusTrue,
   ReturnStatement(One),
   LetStatement(B, InfixExpression(One, "+", Boolean(TRUE))),
   ExpressionStatement(IfExpression(Boolean(TRUE),
     BlockStatement(<<MinusTrue, LetStatement(A, One)>>), NilNode)),
   ExpressionStatement(IfExpression(Boolean(TRUE),
     BlockStatement(<<ExpressionStatement(IfExpression(Boolean(TRUE),
                        BlockStatement(<<ExpressionStatement(A),
                                         LetStatement(B, One)>>), NilNode)),
                      LetStatement(A, One)>>), NilNode)),
   ExpressionStatement(CallExpression(
     FunctionLiteral(<<>>, BlockStatement(<<ExpressionStatement(A),
                                            LetStatement(B, One)>>)), <<>>)),
   ExpressionStatement(IfExpression(Boolean(FALSE), BlockStatement(<<>>),
     BlockStatement(<<ReturnStatement(A), LetStatement(B, One)>>)))}

\* env := object.NewEnvironment(), before a program is evaluated
NewEvaluator ==
  [envs |-> <<[store |-> <<>>, outer |-> 0]>>, log |-> <<>>, ids |-> 0, panic |-> ""]

EvalInit ==
  /\ \E n \in 0..MaxStatements :
       \E stmts \in [1..n -> EvalStatements] :
         evaluation = [kind |-> "eval", program |-> Program(stmts), done |-> FALSE,
                       result |-> Nil, e |-> NewEvaluator]
  /\ VmIdle
  /\ session = NoSession
  /\ compilation = NoCompilation
  /\ symtabs = <<>>
  /\ resolved = NoResolve
  /\ deflog = <<>>
  /\ asm = NoAsm
  /\ lexer = NoLexer
  /\ lexed = NoLexed
  /\ parsed = NoParsed

\* evaluator.Eval(program, env)
Evaluate ==
  /\ evaluation.kind = "eval"
  /\ ~evaluation.done
  /\ \E r \in {Eval(evaluation.e, evaluation.program, 1)} :
       evaluation' = [evaluation EXCEPT !.done = TRUE, !.result = r.o, !.e = r.e]
  /\ UNCHANGED <<vmVars, symVars, codeVars, lexVars, parseVars, replVars, compVars>>

EvalNext == Evaluate

SpecEval == EvalInit /\ [][EvalNext]_vars

(***************************************************************************)
(* The compiler on its own: a function literal whose body is n let         *)
(* statements of n names is compiled by a new compiler.                    *)
(***************************************************************************)
MaxLocals == 257

\* fn() { let l1 = true; ...; let ln = true; }
LocalName(i) == "l" \o ToString(i)
WideFunction(n) ==
  FunctionLiteral(<<>>, BlockStatement([i \in 1..n |->
    LetStatement(Identifier(LocalName(i)), Boolean(TRUE))]))

CompileInit ==
  /\ \E n \in 1..MaxLocals :
       compilation = [kind |-> "compile", n |-> n, done |-> FALSE, c |-> NewCompiler]
  /\ VmIdle
  /\ session = NoSession
  /\ evaluation = NoEvaluation
  /\ symtabs = <<>>
  /\ resolved = NoResolve
  /\ deflog = <<>>
  /\ asm = NoAsm
  /\ lexer = NoLexer
  /\ lexed = NoLexed
  /\ parsed = NoParsed

\* compiler.New().Compile(program), the program being the function literal
CompileFunction ==
  /\ compilation.kind = "compile"
  /\ ~compilation.done
  /\ \E c \in {Compile(NewCompiler,
                       Program(<<ExpressionStatement(WideFunction(compilation.n))>>))} :
       compilation' = [compilation EXCEPT !.done = TRUE, !.c = c]
  /\ UNCHANGED <<vmVars, symVars, codeVars, lexVars, parseVars, replVars, evalVars>>

CompileNext == CompileFunction

SpecCompile == CompileInit /\ [][CompileNext]_vars

\* the slot below sp, which is StackTop, in place of stack[sp]
LastPoppedStackElem_Top == Slot(stack, sp - 1)

\* VM.LastPoppedStackElem
LastPoppedStackElem == Slot(stack, sp)

(***************************************************************************)
(* Properties of Run.  hist holds the instruction executed last and the    *)
(* machine as it was when that instruction was decoded.                    *)
(***************************************************************************)
\* the instructions hist.op was decoded from, and its operands
HistIns == Instructions(hist.frame)
HistUint8 == ReadUint8(HistIns, hist.ip + 1)
HistUint16 == ReadUint16(HistIns, hist.ip + 1)
\* the stack before and after the instruction, slot by slot: hist.old holds
\* the former values of the slots the instruction changed
After(i) == Slot(stack, i)
Before(i) == IF i \in DOMAIN hist.old THEN hist.old[i] ELSE After(i)
StackKept == DOMAIN hist.old = {}
\* the callee of the OpCall in hist
HistCallee == Before(hist.sp - 1 - HistUint8)
ClosureCall == hist.op = OpCall /\ HistCallee.t = CLOSURE_OBJ
ArityMatches == FnOf(HistCallee).NumParameters = HistUint8
Compiled == origin.kind = "compiled"
Assembled(name) == origin.kind = "assembled" /\ origin.name = name

\* C1: stack discipline.  Whenever Run has returned nil, sp is 0 and the
\* main frame, whose base pointer is 0, is the only active frame.  It holds
\* for the compiled programs and for the assembled ones alike.
C1_StackDiscipline ==
  status = "done" =>
    /\ sp = 0
    /\ framesIndex = 1
    /\ frames[0].basePointer = 0
    /\ frames[0].cl = MainClosure

\* a compiled program of two statements has run to its end
C1_Witness ==
  /\ Compiled
  /\ status = "done"
  /\ Len(origin.ast.Statements) = 2
  /\ hist.op = OpPop
  /\ globals # <<>>

\* C2: an OpCall whose callee is a closure of another arity ends Run with
\* the error "wrong number of arguments: want=W, got=G"; no frame is pushed,
\* and framesIndex, sp and the stack are as they were before the call.
C2_ArityMismatch ==
  (ClosureCall /\ ~ArityMatches) =>
    /\ status = "error"
    /\ err = "wrong number of arguments: want="
               \o ToString(FnOf(HistCallee).NumParameters)
               \o ", got=" \o ToString(HistUint8)
    /\ framesIndex = hist.framesIndex
    /\ frames[framesIndex - 1].cl = hist.frame.cl
    /\ sp = hist.sp
    /\ StackKept

\* fn() { 1 }(2, 3) below a caller temporary: want=0, got=2
C2_Witness ==
  /\ ClosureCall
  /\ FnOf(HistCallee).NumParameters = 0
  /\ HistUint8 = 2
  /\ hist.sp = 4
  /\ err = "wrong number of arguments: want=0, got=2"

\* C3: an OpCall on a closure of matching arity, with a frame slot left,
\* pushes one frame with ip = -1 and basePointer = sp - N, sets
\* sp = basePointer + NumLocals and leaves every stack slot as it was, so
\* that local i of the callee is argument i.
C3_CallPushesFrame ==
  (ClosureCall /\ ArityMatches /\ hist.framesIndex < MaxFrames) =>
    /\ status \in {"running", "done"}
    /\ framesIndex = hist.framesIndex + 1
    /\ frames[framesIndex - 1] =
         [cl |-> HistCallee.id, ip |-> -1, basePointer |-> hist.sp - HistUint8]
    /\ frames[framesIndex - 2].cl = hist.frame.cl
    /\ sp = frames[framesIndex - 1].basePointer + FnOf(HistCallee).NumLocals
    /\ StackKept
    /\ \A i \in 0..(HistUint8 - 1) :
         After(frames[framesIndex - 1].basePointer + i)
           = Before(hist.sp - HistUint8 + i)

\* fn(a, b) { let c = a + b; c }(1, 2) called with the 7 of "7 + ..." below it
C3_Witness ==
  /\ ClosureCall /\ ArityMatches
  /\ HistUint8 = 2
  /\ FnOf(HistCallee).NumLocals = 3
  /\ frames[framesIndex - 1].basePointer = 2
  /\ sp = 5
  /\ After(0) = Integer(7) /\ After(2) = Integer(1) /\ After(3) = Integer(2)

\* C4: call/return balance.  An OpReturnValue or OpReturn that a called
\* frame executes pops that frame alone; the slot of the callee gets the
\* returned value (Null for OpReturn) and nothing else on the stack changes;
\* sp is the base pointer of the popped frame, which is the sp before the
\* call less N; framesIndex is what it was before the call and the caller
\* goes on after its OpCall.
C4_ReturnBalance ==
  (hist.op \in {OpReturnValue, OpReturn} /\ hist.framesIndex > 1
     /\ (hist.op = OpReturnValue => hist.sp > 0)) =>
    /\ status \in {"running", "done"}
    /\ framesIndex = hist.framesIndex - 1
    /\ sp = hist.frame.basePointer
    /\ After(sp - 1) = IF hist.op = OpReturn THEN Null ELSE Before(hist.sp - 1)
    /\ DOMAIN hist.old \subseteq {hist.frame.basePointer - 1}
    /\ Before(hist.frame.basePointer - 1) = ClosurePtr(hist.frame.cl)
    /\ sp = hist.call.sp - hist.call.numArgs
    /\ framesIndex = hist.call.framesIndex
    /\ frames[framesIndex - 1].ip = hist.call.ip
    /\ Len(calls) = framesIndex - 1

\* the return of fn(a, b) { let c = a + b; c }(1, 2): 3 lands in the slot of
\* the callee, above the 7 of the caller
C4_Witness ==
  /\ hist.op = OpReturnValue
  /\ status = "running"
  /\ hist.call.numArgs = 2
  /\ hist.call.sp = 4
  /\ hist.sp = 6
  /\ sp = 2
  /\ After(1) = Integer(3)
  /\ After(0) = Integer(7)

\* C5: a closure call made when MaxFrames frames are active ends Run with an
\* error, and framesIndex stays within MaxFrames.
C5_FrameOverflowIsError ==
  (ClosureCall /\ ArityMatches /\ hist.framesIndex >= MaxFrames) =>
    /\ status = "error"
    /\ framesIndex <= MaxFrames

\* C6: sp never exceeds StackSize, and a step that would raise it above
\* StackSize ends Run with the error "stack overflow", sp and the stack
\* being left as they were.
C6_StackOverflowIsError ==
  /\ sp <= StackSize
  /\ (ClosureCall /\ ArityMatches
        /\ hist.sp - HistUint8 + FnOf(HistCallee).NumLocals > StackSize) =>
       (status = "error" /\ err = "stack overflow"
          /\ sp = hist.sp /\ StackKept)

\* C7: OpDiv on two Integers, the right one 0, ends Run with an error.
C7_DivisionByZeroIsError ==
  (hist.op = OpDiv /\ hist.sp >= 2 /\ Before(hist.sp - 1) = Integer(0)
     /\ Before(hist.sp - 2).t = INTEGER_OBJ) =>
    status = "error"

\* the object a literal expression stands for, compared with object o
Denotes(e, o) ==
  CASE e.type = "IntegerLiteral" -> o = Integer(e.IntValue)
    [] e.type = "Boolean" -> o = nativeBoolToBooleanObject(e.BoolValue)
    [] e.type = "StringLiteral" -> o.t = STRING_OBJ /\ o.s = e.Value
    [] e.type = "InfixExpression" /\ e.Operator = "+"
         /\ e.Left.type = "IntegerLiteral" /\ e.Right.type = "IntegerLiteral"
         -> o = Integer(e.Left.IntValue + e.Right.IntValue)
    [] OTHER -> TRUE

LastStatement == origin.ast.Statements[Len(origin.ast.Statements)]

\* C8: right after an OpPop, LastPoppedStackElem is the value that OpPop
\* removed; and when Run has finished a program whose last statement is an
\* expression statement, the instruction executed last is that statement's
\* OpPop, sp is 0 and LastPoppedStackElem is the value of the expression.
C8_LastPopped ==
  /\ (hist.op = OpPop /\ status \in {"running", "done"}) =>
       /\ sp = hist.sp - 1
       /\ LastPoppedStackElem = Before(hist.sp - 1)
       /\ ~IsNil(LastPoppedStackElem)
  /\ (Compiled /\ status = "done"
        /\ LastStatement.type = "ExpressionStatement") =>
       /\ hist.op = OpPop
       /\ sp = 0
       /\ Denotes(LastStatement.Expression, LastPoppedStackElem)

\* "let a = 1; 1 + 1" has finished: the value is 2 and the stack is empty
C8_Witness ==
  /\ Compiled
  /\ status = "done"
  /\ Len(origin.ast.Statements) = 2
  /\ LastStatement = ExpressionStatement(InfixExpression(One, "+", One))
  /\ sp = 0
  /\ LastPoppedStackElem = Integer(2)

\* the number of free values of the OpClosure in hist
HistFree == ReadUint8(HistIns, hist.ip + 3)

\* C9: OpClosure(constIdx, K) makes a closure of constant constIdx whose
\* Free holds the top K values in stack order, and leaves it on the stack in
\* their place (sp changes by 1 - K); OpGetFree i pushes the i-th value the
\* current closure was given when OpClosure made it, whatever has become of
\* the stack since.
C9_CaptureByValue ==
  /\ (hist.op = OpClosure /\ status \in {"running", "done"}) =>
       /\ sp = hist.sp - HistFree + 1
       /\ After(sp - 1).t = CLOSURE_OBJ
       /\ closures[After(sp - 1).id].Fn = HistUint16
       /\ closures[After(sp - 1).id].Free
            = [i \in 1..HistFree |-> Before(hist.sp - HistFree + i - 1)]
       /\ \A i \in 0..(sp - 2) : After(i) = Before(i)
  /\ (hist.op = OpGetFree /\ status \in {"running", "done"}) =>
       /\ sp = hist.sp + 1
       /\ hist.frame.cl \in DOMAIN captured
       /\ After(sp - 1) = captured[hist.frame.cl][HistUint8 + 1]
  /\ \A id \in DOMAIN captured : closures[id].Free = captured[id]

\* the closure of fn() { a } reads 1, the value a had when the closure was
\* made, after the local it was copied from has been set to 2
C9_Witness ==
  /\ Assembled("rebind")
  /\ hist.op = OpGetFree
  /\ status = "running"
  /\ After(sp - 1) = Integer(1)
  /\ After(calls[1].sp) = Integer(2)

(***************************************************************************)
(* Properties of the symbol table                                          *)
(***************************************************************************)
\* the number of calls of Define among the first k calls logged
RECURSIVE NumDefines(_, _)
NumDefines(log, k) ==
  IF k = 0 THEN 0
  ELSE NumDefines(log, k - 1) + (IF log[k].op = "Define" THEN 1 ELSE 0)

NoLogged == [op |-> "none", name |-> "", symbol |-> NoSymbol]
\* the last call logged for the name, NoLogged if there is none
RECURSIVE LastLogged(_, _)
LastLogged(log, name) ==
  IF log = <<>> THEN NoLogged
  ELSE IF log[Len(log)].name = name THEN log[Len(log)]
  ELSE LastLogged(SubSeq(log, 1, Len(log) - 1), name)

\* a call op was logged for the name
WasLogged(log, name, op) ==
  \E k \in 1..Len(log) : log[k].name = name /\ log[k].op = op

\* the nearest table of the chain of s that a call was logged for the name
\* in, NilTable if there is none
RECURSIVE Definer(_, _)
Definer(s, name) ==
  IF LastLogged(deflog[s], name) # NoLogged THEN s
  ELSE IF symtabs[s].Outer # NilTable THEN Definer(symtabs[s].Outer, name)
  ELSE NilTable

\* the name is one that table s captures: defined nearest in an enclosing
\* table that is not the global one
Captured(s, name) ==
  /\ s # NilTable
  /\ Definer(s, name) \notin {NilTable, s}
  /\ symtabs[Definer(s, name)].Outer # NilTable

\* C10: a name resolved from an enclosed table and found in an enclosing
\* table that is not the global one comes back with scope Free; a name found
\* in the global table comes back as the Global symbol defined there.
C10_ResolveFree ==
  /\ (resolved.ok /\ resolved.holder # resolved.table
        /\ symtabs[resolved.holder].Outer # NilTable) =>
       resolved.obj.Scope = FreeScope
  /\ (resolved.ok /\ symtabs[resolved.holder].Outer = NilTable
        /\ LastLogged(deflog[resolved.holder], resolved.name).op = "Define") =>
       resolved.obj.Scope = GlobalScope

\* C11: a captured name (one found in an enclosing table that is not the
\* global one) resolved again from the same enclosed table, nothing having
\* been defined in between, comes back as the same Free symbol as the first
\* time.
C11_ResolveFreeIdempotent ==
  (resolved.again /\ Captured(resolved.table, resolved.name)) =>
    /\ resolved.ok
    /\ resolved.obj.Scope = FreeScope
    /\ resolved.obj = resolved.first

\* C12: the symbol every Define returned has the name, as its index the
\* number of calls of Define made on that table before it, and scope Global
\* if the table has no outer table, Local if it has one; the count of each
\* table is the number of calls of Define made on that table, whatever was
\* defined in the others.
C12_Define ==
  \A t \in 1..Len(symtabs) :
    /\ symtabs[t].numDefinitions = NumDefines(deflog[t], Len(deflog[t]))
    /\ \A k \in 1..Len(deflog[t]) :
         deflog[t][k].op = "Define" =>
           deflog[t][k].symbol =
             [Name |-> deflog[t][k].name,
              Scope |-> IF symtabs[t].Outer = NilTable THEN GlobalScope
                        ELSE LocalScope,
              Index |-> NumDefines(deflog[t], k - 1)]

\* the first definition of an enclosed table whose outer table holds one
C12_Witness ==
  \E t \in 1..Len(symtabs) :
    /\ symtabs[t].Outer # NilTable
    /\ NumDefines(deflog[t], Len(deflog[t])) = 1
    /\ deflog[t][Len(deflog[t])].op = "Define"
    /\ NumDefines(deflog[symtabs[t].Outer], Len(deflog[symtabs[t].Outer])) = 1

\* C13: a name resolved from the table it was last registered in with
\* DefineFunctionName comes back with scope Function and index 0; once Define
\* was called for the name in that table afterwards, it comes back as the
\* symbol that Define returned, Global or Local with its definition index.
C13_FunctionName ==
  LET last == LastLogged(deflog[resolved.table], resolved.name)
  IN resolved.table # NilTable =>
       /\ last.op = "DefineFunctionName" =>
            /\ resolved.ok
            /\ resolved.obj = [Name |-> resolved.name, Scope |-> FunctionScope,
                               Index |-> 0]
       /\ (last.op = "Define"
             /\ WasLogged(deflog[resolved.table], resolved.name,
                           "DefineFunctionName")) =>
            /\ resolved.ok
            /\ resolved.obj = last.symbol
            /\ resolved.obj.Scope \in {GlobalScope, LocalScope}

\* the name of a function of an enclosed table, defined again in that table
C13_Witness ==
  /\ resolved.table # NilTable
  /\ WasLogged(deflog[resolved.table], resolved.name, "DefineFunctionName")
  /\ LastLogged(deflog[resolved.table], resolved.name).op = "Define"
  /\ resolved.obj.Scope = LocalScope

\* C14: DefineBuiltin leaves the count of definitions of the global table as
\* it was; a name whose nearest definition in the chain of a table is a
\* DefineBuiltin on the global table resolves, from the global table and from
\* every table enclosed in it, to the symbol DefineBuiltin returned: scope
\* Builtin, the index given, never Free.
C14_Builtins ==
  /\ (deflog[1] # <<>> /\ deflog[1][Len(deflog[1])].op = "DefineBuiltin") =>
       symtabs[1].numDefinitions = NumDefines(deflog[1], Len(deflog[1]))
  /\ (resolved.table # NilTable
        /\ Definer(resolved.table, resolved.name) = 1
        /\ LastLogged(deflog[1], resolved.name).op = "DefineBuiltin") =>
       /\ resolved.ok
       /\ resolved.obj = LastLogged(deflog[1], resolved.name).symbol
       /\ resolved.obj.Scope = BuiltinScope
       /\ \E i \in 1..Len(BuiltinNames) :
            BuiltinNames[i] = resolved.name /\ resolved.obj.Index = i - 1

\* the second builtin, resolved from a table two levels below the global one,
\* which already holds a definition
C14_Witness ==
  /\ resolved.table # NilTable
  /\ symtabs[resolved.table].Outer \notin {NilTable, 1}
  /\ Definer(resolved.table, resolved.name) = 1
  /\ LastLogged(deflog[1], resolved.name).op = "DefineBuiltin"
  /\ resolved.obj.Index = 1
  /\ symtabs[1].numDefinitions = 1

\* C15: Resolve of a name that no table of the chain has had defined reports
\* not-found and leaves the tables as they were.
C15_NotFound ==
  (resolved.table # NilTable /\ Definer(resolved.table, resolved.name) = NilTable) =>
    /\ ~resolved.ok
    /\ ~resolved.changed
    /\ \A t \in 1..Len(symtabs) :
         symtabs[t].numDefinitions = NumDefines(deflog[t], Len(deflog[t]))

\* a name defined in a table that is not an ancestor, and in no other
C15_Witness ==
  /\ resolved.table # NilTable
  /\ Definer(resolved.table, resolved.name) = NilTable
  /\ symtabs[resolved.table].Outer # NilTable
  /\ \E t \in 1..Len(symtabs) :
       /\ symtabs[t].Outer # NilTable
       /\ LastLogged(deflog[t], resolved.name).op = "Define"

(***************************************************************************)
(* Properties of the code package                                          *)
(***************************************************************************)
\* the operands fit the widths of the opcode
Fits(widths, operands) ==
  /\ Len(operands) = Len(widths)
  /\ \A i \in 1..Len(widths) :
       operands[i] >= 0 /\ operands[i] < (IF widths[i] = 2 THEN 65536 ELSE 256)

\* the bytes of x, big-endian, in the width
BigEndian(x, width) ==
  IF width = 2 THEN <<x \div 256, x % 256>> ELSE <<x>>

\* C16: Make(op, xs...) for operands that fit the widths of op is the opcode
\* byte followed by each operand big-endian in its width, 1 + sum(widths)
\* bytes in all, and ReadOperands of the bytes after the opcode returns xs and
\* the number of operand bytes; also for the opcode with operands of widths 2
\* and 1.
C16_RoundTrip ==
  \A k \in 1..Len(asm.instructions) :
    LET made == asm.instructions[k]
        widths == definitions[made.op]
    IN Fits(widths, made.operands) =>
         /\ Len(made.instruction) = 1 + SumSeq(widths)
         /\ made.instruction[1] = made.op
         /\ \A i \in 1..Len(widths) :
              SubSeq(made.instruction,
                     2 + SumSeq(SubSeq(widths, 1, i - 1)),
                     1 + SumSeq(SubSeq(widths, 1, i)))
                = BigEndian(made.operands[i], widths[i])
         /\ (k = Len(asm.instructions) /\ asm.read # NoRead) =>
              /\ asm.read.operands = made.operands
              /\ asm.read.offset = SumSeq(widths)

\* Make(OpClosure, 65534, 255) read back
C16_Witness ==
  /\ asm.instructions # <<>>
  /\ asm.instructions[Len(asm.instructions)].instruction = <<OpClosure, 255, 254, 255>>
  /\ asm.read = [operands |-> <<65534, 255>>, offset |-> 3]

\* the line of the k-th instruction made: its offset in four digits, the
\* name of its opcode and its operands
Line(k) ==
  LET made == asm.instructions[k]
      before == SumSeq([j \in 1..(k - 1) |-> Len(asm.instructions[j].instruction)])
      first == Sprint04d(before) \o " " \o OpcodeName(made.op)
  IN CASE Len(made.operands) = 0 -> first \o "\n"
       [] Len(made.operands) = 1 -> first \o " " \o Sprintd(made.operands[1]) \o "\n"
       [] OTHER -> first \o " " \o Sprintd(made.operands[1]) \o " "
                   \o Sprintd(made.operands[2]) \o "\n"

\* C17: String() of the concatenation of instructions whose operands fit
\* gives one line per instruction, in order: the offset of the instruction
\* (the length of those before it) in four digits, the name of the opcode and
\* every operand, whether the opcode has none, one or two.
C17_Disassembly ==
  (asm.listing.called
     /\ \A k \in 1..Len(asm.instructions) :
          Fits(definitions[asm.instructions[k].op], asm.instructions[k].operands)) =>
    /\ ~asm.listing.hangs
    /\ Len(asm.listing.out) = Len(asm.instructions)
    /\ \A k \in 1..Len(asm.instructions) : asm.listing.out[k] = Line(k)

(***************************************************************************)
(* Properties of the lexer                                                 *)
(***************************************************************************)
\* C18: whatever the bytes of the input, NextToken returns no more tokens
\* that are not EOF than the input has bytes, and a call made after one that
\* returned EOF returns EOF.
C18_LexerTotality ==
  /\ lexed.tokens <= Len(lexer.input)
  /\ lexed.afterEOF => lexed.tok.Type = "EOF"

(***************************************************************************)
(* Properties of the parser                                                *)
(***************************************************************************)
\* the rank of a binary operator in EQUALS < LESSGREATER < SUM < PRODUCT
Rank(operator) ==
  CASE operator \in {<<61, 61>>, <<33, 61>>} -> 1
    [] operator \in {<<60>>, <<62>>} -> 2
    [] operator \in {<<43>>, <<45>>} -> 3
    [] operator \in {<<42>>, <<47>>} -> 4

\* the operands and operators of an expression, left to right
RECURSIVE Leaves(_)
Leaves(e) ==
  CASE e.type = "InfixExpression" ->
         Leaves(e.Left) \o <<e.Operator>> \o Leaves(e.Right)
    [] e.type = "PrefixExpression" -> <<e.Operator>> \o Leaves(e.Right)
    [] e.type = "Identifier" -> <<e.Value>>
    [] OTHER -> <<e>>

\* an expression groups by precedence, to the left among equals, and its
\* prefix operators apply to an operand alone
RECURSIVE Grouped(_)
Grouped(e) ==
  CASE e.type = "InfixExpression" ->
         /\ Grouped(e.Left)
         /\ Grouped(e.Right)
         /\ e.Left.type = "InfixExpression" => Rank(e.Left.Operator) >= Rank(e.Operator)
         /\ e.Right.type = "InfixExpression" => Rank(e.Right.Operator) > Rank(e.Operator)
    [] e.type = "PrefixExpression" ->
         e.Right.type # "InfixExpression" /\ Grouped(e.Right)
    [] OTHER -> e.type = "Identifier"

\* the i-th operand of the chain parsed, under its prefix operator if it has one
Operand(i) ==
  IF parsed.prefixes[i] = <<>> THEN Identifier(parsed.operands[i])
  ELSE PrefixExpression(parsed.prefixes[i], Identifier(parsed.operands[i]))

\* the operands and operators of the chain parsed, left to right
ChainLeaves ==
  Concat([i \in 1..Len(parsed.operands) |->
            (IF parsed.prefixes[i] = <<>> THEN <<>> ELSE <<parsed.prefixes[i]>>)
            \o <<parsed.operands[i]>>
            \o (IF i < Len(parsed.operands) THEN <<parsed.ops[i]>> ELSE <<>>)])

\* C19: a chain of operands joined by ==, !=, <, >, +, -, *, /, each operand
\* with or without a prefix - or !, parses without error into one expression
\* that holds the operands and operators in their order, grouped by
\* precedence EQUALS < LESSGREATER < SUM < PRODUCT and to the left among
\* equals, every prefix operator applying to its operand alone; a op1 b op2 c
\* is ((a op1 b) op2 c) if the precedence of op1 is at least that of op2 and
\* (a op1 (b op2 c)) if not.
C19_OperatorGrouping ==
  (parsed.done /\ parsed.kind = "chain") =>
    /\ ~parsed.hangs
    /\ parsed.errors = <<>>
    /\ Len(parsed.program.Statements) = 1
    /\ LET e == parsed.program.Statements[1].Expression
       IN /\ Leaves(e) = ChainLeaves
          /\ Grouped(e)
          /\ Len(parsed.operands) = 3 =>
               e = IF Rank(parsed.ops[1]) >= Rank(parsed.ops[2])
                   THEN InfixExpression(
                          InfixExpression(Operand(1), parsed.ops[1], Operand(2)),
                          parsed.ops[2], Operand(3))
                   ELSE InfixExpression(
                          Operand(1), parsed.ops[1],
                          InfixExpression(Operand(2), parsed.ops[2], Operand(3)))

\* a + -b * c, parsed as (a + ((-b) * c))
C19_Witness ==
  /\ parsed.done
  /\ parsed.input = <<97, 32, 43, 32, 45, 98, 32, 42, 32, 99>>
  /\ parsed.program.Statements[1].Expression =
       InfixExpression(Identifier(<<97>>), <<43>>,
                       InfixExpression(PrefixExpression(<<45>>, Identifier(<<98>>)),
                                       <<42>>, Identifier(<<99>>)))

(***************************************************************************)
(* Properties of the comparison of objects                                 *)
(***************************************************************************)
\* the operands of the comparison executed last
HistRight == Before(hist.sp - 1)
HistLeft == Before(hist.sp - 2)

\* C20: OpEqual on two String objects of identical bytes, held in distinct
\* objects, pushes True in their place, and OpNotEqual pushes False.
C20_StringEquality ==
  (/\ hist.op \in {OpEqual, OpNotEqual}
   /\ HistLeft.t = STRING_OBJ /\ HistRight.t = STRING_OBJ
   /\ HistLeft.s = HistRight.s
   /\ HistLeft.id # HistRight.id) =>
    /\ status # "error" /\ status # "panic"
    /\ sp = hist.sp - 1
    /\ After(hist.sp - 2) = IF hist.op = OpEqual THEN True ELSE False

(***************************************************************************)
(* Properties of hashes                                                    *)
(***************************************************************************)
\* the types of the objects that can be hash keys
HashableTypes == {INTEGER_OBJ, BOOLEAN_OBJ, STRING_OBJ}

\* two hashable objects are the same key: the same type and value
SameKey(a, b) ==
  /\ a.t = b.t
  /\ CASE a.t = INTEGER_OBJ -> a.n = b.n
       [] a.t = BOOLEAN_OBJ -> a.b = b.b
       [] a.t = STRING_OBJ -> a.s = b.s
       [] OTHER -> FALSE

\* the hash has a pair under the key
Present(hash, key) ==
  \E k \in DOMAIN hash.Pairs : SameKey(hash.Pairs[k].Key, key)

\* the operands of the OpIndex executed last, and the keys and values OpHash
\* was to build its hash from
HistIndexed == Before(hist.sp - 2)
HistIndex == Before(hist.sp - 1)
HistKeys == {Before(i) : i \in {j \in (hist.sp - HistUint16)..(hist.sp - 1) :
                                  (j - (hist.sp - HistUint16)) % 2 = 0}}

UnusableAsHashKey(o) == err = "unusable as hash key: " \o o.t

\* C21: OpIndex on a Hash with an Integer, Boolean or String index the hash
\* has no pair for puts Null in place of the two; OpIndex on a Hash with an
\* index of another type, and OpHash with a key of another type, make Run
\* return an "unusable as hash key" error and write nothing to the stack.
C21_HashKeys ==
  /\ (hist.op = OpIndex /\ HistIndexed.t = HASH_OBJ /\ ~IsNil(HistIndex)) =>
       /\ (HistIndex.t \in HashableTypes /\ ~Present(HistIndexed, HistIndex)) =>
            /\ status = "running"
            /\ sp = hist.sp - 1
            /\ After(hist.sp - 2) = Null
       /\ HistIndex.t \notin HashableTypes =>
            /\ status = "error"
            /\ UnusableAsHashKey(HistIndex)
            /\ StackKept
  /\ (hist.op = OpHash /\ \E key \in HistKeys : key.t \notin HashableTypes) =>
       /\ status = "error"
       /\ \E key \in HistKeys : key.t \notin HashableTypes /\ UnusableAsHashKey(key)
       /\ StackKept

\* {1: 1}["s"] has been indexed
C21_Witness ==
  /\ hist.op = OpIndex
  /\ HistIndexed.t = HASH_OBJ
  /\ HistIndex.t = STRING_OBJ
  /\ ~Present(HistIndexed, HistIndex)
  /\ After(hist.sp - 2) = Null

\* {fn() { }: 1} has failed
C21_WitnessKey ==
  /\ hist.op = OpHash
  /\ \E key \in HistKeys : key.t = COMPILED_FUNCTION_OBJ
  /\ status = "error"

(***************************************************************************)
(* Properties of the code of an if-expression.  They are stated of the     *)
(* programs that end with an if-expression, as an expression statement or  *)
(* as the value of a let statement: it is the one if-expression of the     *)
(* program, and its code is in the main function.                          *)
(***************************************************************************)
\* the offsets of the instructions of ins from offset i on
RECURSIVE Offsets(_, _)
Offsets(ins, i) ==
  IF i >= Len(ins) THEN {}
  ELSE {i} \cup Offsets(ins, i + 1 + SumSeq(definitions[At(ins, i)]))

EndsWithIf ==
  /\ Compiled
  /\ \/ /\ LastStatement.type = "ExpressionStatement"
        /\ LastStatement.Expression.type = "IfExpression"
     \/ /\ LastStatement.type = "LetStatement"
        /\ LastStatement.Value.type = "IfExpression"

MainInstructions == mainFn.Instructions
\* where the code that follows the if-expression starts: the OpPop of the
\* expression statement, or the OpSetGlobal of the let statement
AfterIf ==
  Len(MainInstructions) - (IF LastStatement.type = "ExpressionStatement" THEN 1 ELSE 3)
JumpNotTruthyPos ==
  CHOOSE i \in Offsets(MainInstructions, 0) : At(MainInstructions, i) = OpJumpNotTruthy
JumpPos == CHOOSE i \in Offsets(MainInstructions, 0) : At(MainInstructions, i) = OpJump

\* the operand of OpJumpNotTruthy is the offset after the OpJump that ends the
\* consequence, that of OpJump the offset after the alternative, and no
\* placeholder is left
IfCodeShape ==
  EndsWithIf =>
    /\ ReadUint16(MainInstructions, JumpNotTruthyPos + 1) = JumpPos + 3
    /\ ReadUint16(MainInstructions, JumpPos + 1) = AfterIf
    /\ \A i \in Offsets(MainInstructions, 0) :
         At(MainInstructions, i) \in {OpJumpNotTruthy, OpJump} =>
           ReadUint16(MainInstructions, i + 1) # 9999

\* Run has come to the end of the branch it took
BranchDone ==
  /\ EndsWithIf
  /\ status = "running"
  /\ framesIndex = 1
  /\ hist.op # OpJumpNotTruthy
  /\ frames[0].ip = AfterIf - 1

\* C22: in the code of an if-expression the operand of OpJumpNotTruthy is
\* the offset of the instruction after the OpJump that ends the consequence,
\* the operand of OpJump is the offset of the instruction after the
\* alternative (or the OpNull), no placeholder operand is left, and the
\* branch that runs leaves one value on the stack, whatever the blocks are.
C22_IfExpression ==
  /\ IfCodeShape
  /\ BranchDone => sp = 1

(***************************************************************************)
(* Properties of the code of a function literal                            *)
(***************************************************************************)
Called == origin.kind = "called"

\* the offset of the last instruction of ins
LastOffset(ins) ==
  CHOOSE i \in Offsets(ins, 0) : \A j \in Offsets(ins, 0) : j <= i

EndsWithReturn(ins) ==
  ins # <<>> /\ At(ins, LastOffset(ins)) \in {OpReturnValue, OpReturn}

\* the program ends with a function literal as an expression statement
EndsWithFunction ==
  /\ Compiled \/ Called
  /\ LastStatement.type = "ExpressionStatement"
  /\ LastStatement.Expression.type = "FunctionLiteral"

\* that function literal, and its compiled function: the constant the code of
\* the statement loads
LastLiteral == LastStatement.Expression
LastFunction ==
  IF Called THEN At(constants, ReadUint16(MainInstructions, 1))
  ELSE At(constants, ReadUint16(MainInstructions, Len(MainInstructions) - 3))

\* the code of the body of that function literal, compiled in a scope of its
\* own after the statements before it
BodyCode ==
  CurrentInstructions(
    Compile(DefineAll(enterScope(CompileAll(NewCompiler,
                                            SubSeq(origin.ast.Statements, 1,
                                                   Len(origin.ast.Statements) - 1))),
                      LastLiteral.Parameters),
            LastLiteral.Body))

\* the last statement of the body is of this type
BodyEndsWith(type) ==
  /\ LastLiteral.Body.Statements # <<>>
  /\ LastLiteral.Body.Statements[Len(LastLiteral.Body.Statements)].type = type

\* C23: the instructions of every compiled function end with OpReturnValue
\* or OpReturn: they are the code of the body with its last OpPop turned into
\* OpReturnValue where it stands if the body ends with an expression
\* statement, the code of the body if it ends with a return statement, and
\* the code of the body followed by OpReturn if it is empty or ends with a
\* let statement; and a called function never comes to the end of its
\* instructions.
C23_FunctionEpilogue ==
  /\ (Compiled \/ Called) =>
       \A i \in 1..Len(constants) :
         constants[i].t = COMPILED_FUNCTION_OBJ =>
           EndsWithReturn(constants[i].Instructions)
  /\ EndsWithFunction =>
       CASE BodyEndsWith("ExpressionStatement") ->
              /\ BodyCode[Len(BodyCode)] = OpPop
              /\ LastFunction.Instructions =
                   [BodyCode EXCEPT ![Len(BodyCode)] = OpReturnValue]
         [] BodyEndsWith("ReturnStatement") -> LastFunction.Instructions = BodyCode
         [] OTHER -> LastFunction.Instructions = BodyCode \o <<OpReturn>>
  /\ (Called /\ status = "running" /\ framesIndex > 1) => LoopCondition

\* fn() { let b = 1 } has been called and has returned
C23_Witness ==
  /\ Called
  /\ BodyEndsWith("LetStatement")
  /\ hist.op = OpReturn
  /\ framesIndex = 1
  /\ status = "running"

(***************************************************************************)
(* Properties of the console loop.                                         *)
(***************************************************************************)
Repl == session.kind = "repl"

\* the names a table of the session resolves to a global, and the names the
\* let statements of a program define
GlobalNames(tables) ==
  {name \in DOMAIN tables[1].store : tables[1].store[name].Scope = GlobalScope}

LetNames(program) ==
  {program.Statements[i].Name.Value :
     i \in {j \in DOMAIN program.Statements :
              program.Statements[j].type = "LetStatement"}}

\* a step within a session whose batches have all compiled, and run without
\* error up to the batch before the current one
CleanStep == Repl /\ session.clean /\ session'.clean

\* a step is a round of the loop reading a batch
BatchStep == Repl /\ session'.batches = session.batches + 1

\* a slot of the globals that was written keeps its value
GlobalsKept ==
  \A i \in DOMAIN globals : i \in DOMAIN globals' /\ globals'[i] = globals[i]

\* the constants are appended to only
ConstantsKept ==
  /\ Len(constants') >= Len(constants)
  /\ SubSeq(constants', 1, Len(constants)) = constants

\* after a batch has run, every global name has a value in its slot
GlobalsReadable ==
  status = "done" =>
    \A name \in GlobalNames(session.tables) :
      session.tables[1].store[name].Index \in DOMAIN globals

\* C24, as stated: across batches that compile and run, every global name
\* resolves to the symbol (the Global index) it resolved to before, the
\* globals keep the values written and the constants keep their indexes.
C24_SessionPersistence_AnyName ==
  [][CleanStep =>
       /\ \A name \in GlobalNames(session.tables) :
            Resolve(session'.tables, 1, name).obj = session.tables[1].store[name]
       /\ GlobalsKept
       /\ GlobalsReadable'
       /\ ConstantsKept]_vars

\* C24, amended: across batches that compile and run, every global name that
\* the batch read does not define again resolves to the symbol (the Global
\* index) it resolved to before, every slot of the globals keeps the value
\* written to it, every global name has a value in its slot once the batch
\* has run, and the constants keep their indexes (later batches only append).
C24_SessionPersistence ==
  [][CleanStep =>
       /\ \A name \in GlobalNames(session.tables) :
            \/ BatchStep /\ name \in LetNames(session'.program)
            \/ Resolve(session'.tables, 1, name).obj = session.tables[1].store[name]
       /\ GlobalsKept
       /\ GlobalsReadable'
       /\ ConstantsKept]_vars

\* the third batch of `let a = 1`, `let b = a`, `b` has run and printed 1
C24_Witness ==
  /\ Repl
  /\ session.clean
  /\ session.batches = 3
  /\ session.program = Program(<<ExpressionStatement(B)>>)
  /\ status = "done"
  /\ DOMAIN globals = {0, 1}
  /\ LastPoppedStackElem = Integer(1)

\* C28: whenever Compile of a program has returned, with nil or with an
\* error, the compiler's scopeIndex is 0, its scopes hold the main scope only
\* and its symbol table is the table it was given.
C28_ScopesBalanced ==
  (Repl /\ session.batches > 0) =>
    /\ session.comp.scopeIndex = 0
    /\ Len(session.comp.scopes) = 1
    /\ session.comp.symbolTable = 1

\* the names the batches use
BatchNames == {"a", "b", "c"}

\* every global that OpGetGlobal has read had been written by an OpSetGlobal
GetGlobalReadsWritten ==
  (Repl /\ hist.op = OpGetGlobal) => HistUint16 \in DOMAIN globals

\* C29: after a batch whose compilation returned an error the session's
\* symbol table resolves the names it resolved before the batch, to the same
\* symbols, and every global index that OpGetGlobal reads has been written by
\* an OpSetGlobal that was executed.
C29_FailedBatchDoesNotLeak ==
  /\ (Repl /\ session.failed) =>
       \A name \in BatchNames :
         /\ Resolve(session.tables, 1, name).ok = Resolve(session.before, 1, name).ok
         /\ Resolve(session.tables, 1, name).obj = Resolve(session.before, 1, name).obj
  /\ GetGlobalReadsWritten

(***************************************************************************)
(* Properties of the tree-walking evaluator.                               *)
(***************************************************************************)
EvalLog == evaluation.e.log

\* the i-th entry of the log is a statement that evaluated to an Error
EndsInError(i) == EvalLog[i].ev = "end" /\ isError(EvalLog[i].o)

\* C25: once a statement of the program or of a block has evaluated to an
\* Error, no statement begins to be evaluated: the entries that follow are
\* the enclosing statements ending with that same Error, and Eval of the
\* program returns it.
C25_ErrorPropagation ==
  (evaluation.kind = "eval" /\ evaluation.done) =>
    \A i \in DOMAIN EvalLog :
      EndsInError(i) =>
        /\ \A j \in DOMAIN EvalLog :
             j > i => EvalLog[j].ev = "end" /\ EvalLog[j].o = EvalLog[i].o
        /\ evaluation.result = EvalLog[i].o

\* a statement of a block inside a block evaluated to an Error with
\* statements left in both blocks and in the program
C25_Witness ==
  /\ evaluation.kind = "eval"
  /\ evaluation.done
  /\ Len(evaluation.program.Statements) = 2
  /\ evaluation.program.Statements[2] = LetStatement(A, One)
  /\ isError(evaluation.result)
  /\ Len(EvalLog) = 6
  /\ EndsInError(4)

(***************************************************************************)
(* Properties of the parser's loops.                                       *)
(***************************************************************************)
\* C26: ParseProgram returns on every input: no loop of it, of
\* parseLetStatement or of parseReturnStatement goes on for ever, also when
\* no semicolon follows a let or return statement before the end of input.
C26_ParseProgramTerminates == parsed.done => ~parsed.hangs

(***************************************************************************)
(* Properties of the disassembler's loop.                                  *)
(***************************************************************************)
\* C27: Instructions.String() returns on every byte sequence: each turn of
\* its loop moves on by at least one byte, also at a byte that is no opcode.
C27_StringTerminates == asm.dump.called => ~asm.dump.hangs

(***************************************************************************)
(* Properties of the operands the compiler emits.                          *)
(***************************************************************************)
\* the function compiled, the symbol Define gave its i-th let statement and
\* the operand of that statement's OpSetLocal in the code (a let statement
\* is OpTrue, OpSetLocal index: three bytes)
WideCode == compilation.c.constants[1].Instructions
LocalSymbol(i) == compilation.c.tables[2].store[LocalName(i)]
EmittedIndex(i) == ReadUint8(WideCode, 3 * (i - 1) + 2)

\* C30: every index the compiler passes to Make for a local fits the
\* operand width of OpSetLocal and is the operand in the code, so that no
\* two locals of the function are emitted with the same encoded index.
C30_OperandRange ==
  (compilation.kind = "compile" /\ compilation.done) =>
    /\ \A i \in 1..compilation.n :
         /\ Fits(definitions[OpSetLocal], <<LocalSymbol(i).Index>>)
         /\ EmittedIndex(i) = LocalSymbol(i).Index
    /\ \A i, j \in 1..compilation.n : i # j => EmittedIndex(i) # EmittedIndex(j)

====
